---- MODULE Spec2Model ----
(***************************************************************************)
(* tauri-plugin-rstate: the store facade (desktop.rs), the reducer built   *)
(* by StateBuilder (state_builder.rs) and the JSON helpers (models.rs),    *)
(* as a state machine over a small number of caller threads.               *)
(***************************************************************************)
EXTENDS Integers, Sequences, FiniteSets, TLC

\* ------------------------------------------------------------------ bounds

\* Facade calls (dispatch, reads, registrations) started in one behaviour.
MaxOps == 3

\* The caller threads.
Threads == {"t1", "t2"}

\* ------------------------------------------------- serde_json::Value model

\* serde_json::Value: a tagged union.
JNull == [t |-> "null"]
JBool(b) == [t |-> "bool", v |-> b]
JNum(n) == [t |-> "num", v |-> n]
JStr(s) == [t |-> "str", v |-> s]
JArr(s) == [t |-> "arr", v |-> s]
JObj(f) == [t |-> "obj", v |-> f]

\* serde_json::Number is PosInt(u64) | NegInt(i64) | Float(f64).
\* A PosInt is hi * 2^63 + v with v small: hi = 1 is a u64 above i64::MAX.
\* A Float is w + f * 2^-53 with w and f small integers: f counts halves of
\* f64::EPSILON (2^-52), all of them exact f64 values at this scale.
PosInt(hi, v) == [k |-> "PosInt", hi |-> hi, v |-> v]
NegInt(v) == [k |-> "NegInt", v |-> v]
Float(w, f) == [k |-> "Float", w |-> w, f |-> f]

\* f64::EPSILON in units of 2^-53.
EpsilonUnits == 2

\* Option<T>.
None == [some |-> FALSE]
Some(x) == [some |-> TRUE, val |-> x]

\* Number::as_i64: a PosInt above i64::MAX and a Float give None.
as_i64(n) ==
    CASE n.k = "PosInt" -> IF n.hi = 0 THEN Some(n.v) ELSE None
      [] n.k = "NegInt" -> Some(n.v)
      [] OTHER -> None

\* Number::as_f64: always Some; the value as [hi, w, f]. An integer
\* 2^63 + v with v <= 1024 rounds to the f64 2^63 (53-bit mantissa).
as_f64(n) ==
    CASE n.k = "PosInt" -> IF n.hi = 1 THEN [hi |-> 1, w |-> 0, f |-> 0]
                                        ELSE [hi |-> 0, w |-> n.v, f |-> 0]
      [] n.k = "NegInt" -> [hi |-> 0, w |-> n.v, f |-> 0]
      [] OTHER -> [hi |-> 0, w |-> n.w, f |-> n.f]

Abs(x) == IF x < 0 THEN -x ELSE x

\* Faulty variant of float_close: the difference is taken without abs().
float_close_signed(a, b) ==
    /\ a.hi = b.hi
    /\ a.w = b.w
    /\ a.f - b.f < EpsilonUnits

\* (a_float - b_float).abs() < f64::EPSILON
float_close(a, b) ==
    /\ a.hi = b.hi
    /\ a.w = b.w
    /\ Abs(a.f - b.f) < EpsilonUnits

\* The Number arm of states_are_equal: integers first, then floats.
numbers_are_equal(a, b) ==
    IF as_i64(a).some /\ as_i64(b).some
    THEN as_i64(a).val = as_i64(b).val
    ELSE float_close(as_f64(a), as_f64(b))

RECURSIVE states_are_equal_subset(_, _)
\* Faulty variant of states_are_equal: the mapping arm without the
\* comparison of the two lengths.
states_are_equal_subset(current, updated) ==
    CASE current.t = "null" /\ updated.t = "null" -> TRUE
      [] current.t = "bool" /\ updated.t = "bool" -> current.v = updated.v
      [] current.t = "num" /\ updated.t = "num" ->
            numbers_are_equal(current.v, updated.v)
      [] current.t = "str" /\ updated.t = "str" -> current.v = updated.v
      [] current.t = "arr" /\ updated.t = "arr" ->
            /\ Len(current.v) = Len(updated.v)
            /\ \A i \in 1..Len(current.v) :
                  states_are_equal_subset(current.v[i], updated.v[i])
      [] current.t = "obj" /\ updated.t = "obj" ->
            \A key \in DOMAIN current.v :
                /\ key \in DOMAIN updated.v
                /\ states_are_equal_subset(current.v[key], updated.v[key])
      [] OTHER -> FALSE

RECURSIVE states_are_equal(_, _)
\* desktop.rs states_are_equal: deep comparison of two JSON values.
states_are_equal(current, updated) ==
    CASE current.t = "null" /\ updated.t = "null" -> TRUE
      [] current.t = "bool" /\ updated.t = "bool" -> current.v = updated.v
      [] current.t = "num" /\ updated.t = "num" ->
            numbers_are_equal(current.v, updated.v)
      [] current.t = "str" /\ updated.t = "str" -> current.v = updated.v
      [] current.t = "arr" /\ updated.t = "arr" ->
            /\ Len(current.v) = Len(updated.v)
            /\ \A i \in 1..Len(current.v) :
                  states_are_equal(current.v[i], updated.v[i])
      [] current.t = "obj" /\ updated.t = "obj" ->
            /\ Cardinality(DOMAIN current.v) = Cardinality(DOMAIN updated.v)
            /\ \A key \in DOMAIN current.v :
                  /\ key \in DOMAIN updated.v
                  /\ states_are_equal(current.v[key], updated.v[key])
      [] OTHER -> FALSE

\* ------------------------------------------------------ models.rs get_state

\* A key is a sequence of one-character strings.
Join(chars) ==
    LET RECURSIVE J(_)
        J(i) == IF i > Len(chars) THEN "" ELSE chars[i] \o J(i + 1)
    IN J(1)

\* key.replace('.', "/")
replace_dots(key) == [i \in 1..Len(key) |-> IF key[i] = "." THEN "/" ELSE key[i]]

\* str::split('/'): the tokens between the slashes, empty tokens kept.
split_slash(path) ==
    LET RECURSIVE S(_, _, _)
        S(i, cur, acc) ==
            IF i > Len(path) THEN Append(acc, cur)
            ELSE IF path[i] = "/" THEN S(i + 1, <<>>, Append(acc, cur))
            ELSE S(i + 1, Append(cur, path[i]), acc)
    IN S(1, <<>>, <<>>)

\* str::replace(from, to) for a two-character pattern and a one-character
\* replacement, left to right without overlap.
replace2(chars, c1, c2, to) ==
    LET RECURSIVE R(_)
        R(i) ==
            IF i > Len(chars) THEN <<>>
            ELSE IF i < Len(chars) /\ chars[i] = c1 /\ chars[i + 1] = c2
                 THEN <<to>> \o R(i + 2)
            ELSE <<chars[i]>> \o R(i + 1)
    IN R(1)

\* x.replace("~1", "/").replace("~0", "~") of Value::pointer.
unescape(token) ==
    CHOOSE r \in {replace2(once, "~", "0", "~") :
                     once \in {replace2(token, "~", "1", "/")}} : TRUE

Digits == <<"0", "1", "2", "3", "4", "5", "6", "7", "8", "9">>
IsDigit(c) == \E d \in 1..10 : Digits[d] = c
DigitVal(c) == (CHOOSE d \in 1..10 : Digits[d] = c) - 1

\* serde_json parse_index: no leading '+', no leading zero unless "0", then
\* usize::from_str (which accepts a leading '+', already excluded).
parse_index(token) ==
    IF Len(token) = 0 THEN None
    ELSE IF token[1] = "+" \/ (token[1] = "0" /\ Len(token) # 1) THEN None
    ELSE IF \A i \in 1..Len(token) : IsDigit(token[i])
         THEN LET RECURSIVE V(_, _)
                  V(i, acc) == IF i > Len(token) THEN acc
                               ELSE V(i + 1, acc * 10 + DigitVal(token[i]))
              IN Some(V(1, 0))
    ELSE None

\* One step of Value::pointer's try_fold.
pointer_step(target, token) ==
    CASE target.t = "obj" ->
            IF Join(token) \in DOMAIN target.v THEN Some(target.v[Join(token)]) ELSE None
      [] target.t = "arr" ->
            LET ix == parse_index(token)
            IN IF ix.some /\ ix.val < Len(target.v)
               THEN Some(target.v[ix.val + 1]) ELSE None
      [] OTHER -> None

\* The try_fold of Value::pointer over the tokens of a path, each token
\* unescaped (once) before its step.
pointer_fold(root, tokens) ==
    LET RECURSIVE F(_, _)
        F(i, target) ==
            IF i > Len(tokens) THEN Some(target)
            ELSE LET nxt == CHOOSE r \in {pointer_step(target, token) :
                                            token \in {unescape(tokens[i])}} : TRUE
                 IN IF nxt.some THEN F(i + 1, nxt.val) ELSE None
    IN F(1, root)

\* serde_json Value::pointer on a path that starts with '/': the path is
\* split once, `pointer.split('/').skip(1)`, and the tokens are folded.
pointer(root, path) ==
    CHOOSE r \in {pointer_fold(root, tokens) : tokens \in {Tail(split_slash(path))}} : TRUE

\* models.rs get_state: the empty key is the whole state, otherwise the
\* JSON pointer "/" + key.replace('.', "/").
get_state(state, key) ==
    IF Len(key) = 0 THEN Some(state)
    ELSE pointer(state, <<"/">> \o replace_dots(key))

\* models.rs state_changed: both resolved values compared with `!=`, the
\* derived PartialEq of serde_json::Value (a PosInt never equals a Float);
\* no value on either side is unchanged, a value on one side is changed.
state_changed(old_state, new_state, key) ==
    LET old_value == get_state(old_state, key)
        new_value == get_state(new_state, key)
    IN CASE old_value.some /\ new_value.some -> old_value.val # new_value.val
         [] ~old_value.some /\ ~new_value.some -> FALSE
         [] OTHER -> TRUE

\* ------------------------------------------------- Action, errors, results

\* models.rs Action { kind, payload: Option<JsonValue> }.
Action_new(kind) == [kind |-> kind, payload |-> None]
Action_with_json(kind, payload) == [kind |-> kind, payload |-> Some(payload)]

\* crate::Result<T>: Ok(value) or Err(RstateError variant, detail).
Ok(v) == [ok |-> TRUE, val |-> v]
Err(e, d) == [ok |-> FALSE, err |-> e, detail |-> d]
Unit == [unit |-> TRUE]
Boolean(b) == [bool |-> b]

\* ------------------------------------------------------ typed payloads

\* The payload types T of with_payload<T> and require_payload<T>. A value
\* of f64 is finite, [k |-> "fin", w, f] for w + f * 2^-53, or one of
\* [k |-> "inf"], [k |-> "-inf"], [k |-> "nan"]; a value of u128 is
\* [hi |-> h, v |-> n] for h * 2^64 + n; an Option is None or Some(x).
PayloadTypes ==
    {"i32", "f64", "bool", "String", "unit", "u128",
     "Option<i32>", "Option<Option<i32>>"}

\* The type inside an Option type.
OptionOf(ty) ==
    CASE ty = "Option<i32>" -> "i32"
      [] ty = "Option<Option<i32>>" -> "Option<i32>"
      [] OTHER -> "none"

\* serde_json::to_value(v) for v: T. A non-finite f64 becomes Null
\* (Number::from_f64 has no number for it), a u128 above u64::MAX is an
\* error, None and () are Null, Some(x) is x's value.
RECURSIVE serialize(_, _)
serialize(ty, v) ==
    CASE ty = "i32" -> Ok(JNum(IF v < 0 THEN NegInt(v) ELSE PosInt(0, v)))
      [] ty = "f64" -> IF v.k = "fin" THEN Ok(JNum(Float(v.w, v.f))) ELSE Ok(JNull)
      [] ty = "bool" -> Ok(JBool(v))
      [] ty = "String" -> Ok(JStr(v))
      [] ty = "unit" -> Ok(JNull)
      [] ty = "u128" -> IF v.hi = 0 THEN Ok(JNum(PosInt(0, v.v)))
                        ELSE Err("serde", "number out of range")
      [] OTHER -> IF v.some THEN serialize(OptionOf(ty), v.val) ELSE Ok(JNull)

\* serde_json::from_value::<T>(j): an integer type takes an integer number
\* in its range, f64 any number (as_f64; the payloads hold no integer
\* above i64::MAX, whose f64 is outside the finite values written here),
\* an Option takes Null as None and anything else as Some of the inner type.
RECURSIVE from_value(_, _)
from_value(ty, j) ==
    CASE ty = "i32" ->
            IF j.t = "num" /\ j.v.k \in {"PosInt", "NegInt"}
               /\ (j.v.k = "PosInt" => j.v.hi = 0)
            THEN Ok(j.v.v) ELSE Err("serde", "invalid type, expected i32")
      [] ty = "f64" ->
            IF j.t = "num"
            THEN Ok([k |-> "fin", w |-> as_f64(j.v).w, f |-> as_f64(j.v).f])
            ELSE Err("serde", "invalid type, expected f64")
      [] ty = "bool" ->
            IF j.t = "bool" THEN Ok(j.v) ELSE Err("serde", "invalid type, expected bool")
      [] ty = "String" ->
            IF j.t = "str" THEN Ok(j.v) ELSE Err("serde", "invalid type, expected string")
      [] ty = "unit" ->
            IF j.t = "null" THEN Ok(Unit) ELSE Err("serde", "invalid type, expected unit")
      [] ty = "u128" ->
            IF j.t = "num" /\ j.v.k = "PosInt" /\ j.v.hi = 0
            THEN Ok([hi |-> 0, v |-> j.v.v]) ELSE Err("serde", "invalid type, expected u128")
      [] OTHER ->
            IF j.t = "null" THEN Ok(None)
            ELSE LET inner == from_value(OptionOf(ty), j)
                 IN IF inner.ok THEN Ok(Some(inner.val)) ELSE inner

\* Action::with_payload: the serialized payload, or a Serialization error.
with_payload(kind, ty, v) ==
    LET j == serialize(ty, v)
    IN IF j.ok THEN Ok([kind |-> kind, payload |-> Some(j.val)])
       ELSE Err("Serialization", j.detail)

\* Faulty variant of require_payload: an absent payload is read as null.
require_payload_absent_as_null(action, ty) ==
    LET r == from_value(ty, IF action.payload.some THEN action.payload.val ELSE JNull)
    IN IF r.ok THEN r ELSE Err("InvalidPayload", r.detail)

\* Action::require_payload::<T>: the deserialized payload, InvalidPayload
\* when it does not deserialize, MissingPayload(kind) when there is none.
require_payload(action, ty) ==
    IF action.payload.some
    THEN LET r == from_value(ty, action.payload.val)
         IN IF r.ok THEN r ELSE Err("InvalidPayload", r.detail)
    ELSE Err("MissingPayload", action.kind)

\* Faulty variant of payload_as: a null payload is read as no payload.
payload_as_null_is_absent(action, ty) ==
    IF action.payload.some /\ action.payload.val.t # "null"
    THEN LET r == from_value(ty, action.payload.val)
         IN IF r.ok THEN Ok(Some(r.val)) ELSE Err("InvalidPayload", r.detail)
    ELSE Ok(None)

\* Action::payload_as::<T>: as require_payload, with Ok(None) for no payload.
payload_as(action, ty) ==
    IF action.payload.some
    THEN LET r == from_value(ty, action.payload.val)
         IN IF r.ok THEN Ok(Some(r.val)) ELSE Err("InvalidPayload", r.detail)
    ELSE Ok(None)

\* Action::has_payload
has_payload(action) == action.payload.some

\* #[derive(Serialize)] of Action: the members kind and payload; an
\* Option<JsonValue> serializes None as null and Some(v) as v.
serialize_action(action) ==
    JObj([kind |-> JStr(action.kind),
          payload |-> IF action.payload.some THEN action.payload.val ELSE JNull])

\* #[derive(Deserialize)] of Action, as the dispatch command applies it to
\* its argument: kind must be a string; a payload member that is missing
\* or null is None (Option<T> takes null as None), any other is Some.
deserialize_action(j) ==
    IF j.t = "obj" /\ "kind" \in DOMAIN j.v /\ j.v["kind"].t = "str"
    THEN Ok([kind |-> j.v["kind"].v,
             payload |-> IF "payload" \in DOMAIN j.v /\ j.v["payload"] # JNull
                         THEN Some(j.v["payload"]) ELSE None])
    ELSE Err("serde", "invalid args for command dispatch")

\* ------------------------------------------------ the state type T, handlers

\* The host's state type T: the tests' TestState { counter: i32, message }
\* with a u64 field. total is hi * 2^63 + v. The counter stays far below
\* i32::MAX within MaxOps calls.
State(counter, total, message) ==
    [counter |-> counter, total |-> total, message |-> message]

\* serde_json::to_value(&T): an i32 is a NegInt when negative, else a PosInt;
\* a u64 is a PosInt.
to_value(s) ==
    JObj([counter |-> JNum(IF s.counter < 0 THEN NegInt(s.counter)
                                             ELSE PosInt(0, s.counter)),
          total   |-> JNum(PosInt(s.total.hi, s.total.v)),
          message |-> JStr(s.message)])

\* ActionHandler<T> closures, by name. A handler body runs in two steps: it
\* reads what it needs from the state (HandlerRead), then writes and returns
\* (HandlerRun), as `state.counter += 1` is a read and a write.
HandlerRead(h, s) ==
    CASE h = "inc"  -> s.counter
      [] h = "bump" -> s.total.v
      [] OTHER      -> 0

\* Faulty variant of HandlerRun: a handler that returns an error leaves the
\* state as it found it.
HandlerRun_rollback(h, s, read, action) ==
    CASE h = "inc" ->
            [state |-> [s EXCEPT !.counter = read + 1], res |-> Ok(Unit), panicked |-> FALSE]
      [] h = "bump" ->
            [state |-> [s EXCEPT !.total = [hi |-> s.total.hi, v |-> read + 1]],
             res |-> Ok(Unit), panicked |-> FALSE]
      [] h = "noop" ->
            [state |-> s, res |-> Ok(Unit), panicked |-> FALSE]
      [] h = "reject" ->
            [state |-> s, res |-> Err("State", "rejected"), panicked |-> FALSE]
      [] h = "not_found" ->
            [state |-> s, res |-> Err("ActionNotFound", action.kind), panicked |-> FALSE]
      [] OTHER ->
            [state |-> s, res |-> Ok(Unit), panicked |-> TRUE]

\* The outcome of a handler body: the state it leaves, what it returns, and
\* whether it panicked instead of returning.
HandlerRun(h, s, read, action) ==
    CASE h = "inc" ->
            [state |-> [s EXCEPT !.counter = read + 1], res |-> Ok(Unit), panicked |-> FALSE]
      [] h = "bump" ->
            [state |-> [s EXCEPT !.total = [hi |-> s.total.hi, v |-> read + 1]],
             res |-> Ok(Unit), panicked |-> FALSE]
      [] h = "noop" ->
            [state |-> s, res |-> Ok(Unit), panicked |-> FALSE]
      [] h = "reject" ->
            [state |-> [s EXCEPT !.message = "dirty"],
             res |-> Err("State", "rejected"), panicked |-> FALSE]
      [] h = "not_found" ->
            [state |-> s, res |-> Err("ActionNotFound", action.kind), panicked |-> FALSE]
      [] OTHER ->
            [state |-> s, res |-> Ok(Unit), panicked |-> TRUE]

\* Two StateBuilder chains. "plain" has kind handlers and no default (as
\* test_state_builder_unknown_action_ignored); "strict" has one kind handler
\* and an erroring default (as test_state_builder_default_handler).
Configs == {"plain", "strict"}

initial_state(c) ==
    IF c = "plain" THEN State(5, [hi |-> 1, v |-> 0], "test")
                   ELSE State(0, [hi |-> 0, v |-> 0], "")

\* StateBuilder.handlers: kind -> handler.
handlers(c) ==
    IF c = "plain"
    THEN [INCREMENT |-> "inc", BUMP |-> "bump", NOOP |-> "noop",
          REJECT |-> "reject", CRASH |-> "crash"]
    ELSE [INCREMENT |-> "inc"]

\* StateBuilder.default_handler.
default_handler(c) == IF c = "strict" THEN Some("not_found") ELSE None


\* Faulty variant of SelectHandler: a kind without handler is an error although no
\* default handler was set.
SelectHandler_strict(c, kind) ==
    IF kind \in DOMAIN handlers(c) THEN Some(handlers(c)[kind])
    ELSE Some("not_found")

\* Faulty variant of SelectHandler: the default handler is looked at first.
SelectHandler_default_first(c, kind) ==
    IF default_handler(c).some THEN default_handler(c)
    ELSE IF kind \in DOMAIN handlers(c) THEN Some(handlers(c)[kind])
    ELSE None

\* `self.handlers.get(&action.kind)`, else `self.default_handler`, else no
\* handler.
find_handler(hs, dh, kind) ==
    IF kind \in DOMAIN hs THEN Some(hs[kind])
    ELSE IF dh.some THEN dh
    ELSE None

\* BuiltStateManager::dispatch handler lookup: the kind's handler, else the
\* default handler, else none.
SelectHandler(c, kind) == find_handler(handlers(c), default_handler(c), kind)

\* --------------------------------------------------------- StateBuilder

\* StateBuilder::new: no handlers, no default handler.
StateBuilder_new(initial) ==
    [initial_state |-> initial, handlers |-> <<>>, default_handler |-> None]

\* Faulty variant of insert: an existing entry is kept.
insert_keep_first(m, k, v) ==
    IF k \in DOMAIN m THEN m
    ELSE [x \in DOMAIN m \cup {k} |-> IF x = k THEN v ELSE m[x]]

\* HashMap::insert: the entry of k is v, whatever it was.
insert(m, k, v) == [x \in DOMAIN m \cup {k} |-> IF x = k THEN v ELSE m[x]]

\* StateBuilder::on: `self.handlers.insert(kind.to_string(), Box::new(handler))`
\* and the builder back; the call has no error result.
on(b, kind, h) == [b EXCEPT !.handlers = insert(@, kind, h)]

\* StateBuilder::on_default: `self.default_handler = Some(Box::new(handler))`.
on_default(b, h) == [b EXCEPT !.default_handler = Some(h)]

\* StateBuilder::build: the reducer with the builder's state and handlers.
build(b) ==
    [state |-> b.initial_state, handlers |-> b.handlers,
     default_handler |-> b.default_handler]

\* ------------------------------------------- the managed slot (ManagedState)

\* The app's managed-state slot for ManagedState: empty, or one store with
\* its state and the poison flags of the facade's Mutex and the reducer's.
Unregistered ==
    [cfg |-> "none", state |-> State(0, [hi |-> 0, v |-> 0], ""),
     poisoned |-> FALSE, innerPoisoned |-> FALSE]

\* StateBuilder::build then Mutex::new(Box::new(state_manager)).
NewStore(c) ==
    [cfg |-> c, state |-> initial_state(c), poisoned |-> FALSE, innerPoisoned |-> FALSE]

\* tauri Manager::manage: sets the state if none of this type is managed;
\* otherwise the managed state is unchanged and the new one is dropped.
manage(slot, new) == IF slot.cfg = "none" THEN new ELSE slot


\* Faulty variant of init: the setup closure does not manage the store.
init_unmanaged(c) == Unregistered

\* lib.rs init(state_manager): the plugin's setup closure takes the store out
\* of its cell and calls app.manage(managed_state).
init(c) == manage(Unregistered, NewStore(c))

\* lib.rs init_empty(): the setup closure manages the Rstate interface only.
init_empty == Unregistered

\* Faulty variant of is_registered: a poisoned store counts as not registered.
is_registered_usable(slot) == slot.cfg # "none" /\ ~slot.poisoned

\* Rstate::is_registered: try_state::<ManagedState>().is_some().
is_registered(slot) == slot.cfg # "none"


\* Faulty variant of state_manager: the slot is used without the registration check.
state_manager_unchecked(slot) == Ok(slot.cfg)

\* Rstate::state_manager: the slot or NotRegistered.
state_manager(slot) ==
    IF slot.cfg # "none" THEN Ok(slot.cfg) ELSE Err("NotRegistered", "")


\* Faulty variant of lock_result: the poisoned guard is recovered with into_inner.
lock_result_recovered(slot) == Ok(Unit)

\* Mutex::lock on the facade's mutex: an Err for a poisoned mutex.
lock_result(slot) ==
    IF slot.poisoned THEN Err("LockPoisoned", "outer") ELSE Ok(Unit)

\* Faulty variant of reducer_get_initial_state: the state the store was built
\* with.
reducer_get_initial_state_built(slot) == to_value(initial_state(slot.cfg))

\* BuiltStateManager::get_initial_state: the serialized state, or Null when
\* the reducer's mutex is poisoned.
reducer_get_initial_state(slot) ==
    IF slot.innerPoisoned THEN JNull ELSE to_value(slot.state)

\* ---------------------------------------------------------------- the state

VARIABLES
    managed,        \* the managed slot
    lockOwner,      \* the thread holding the facade's Mutex, or NoThread
    innerOwner,     \* the thread holding the reducer's Mutex<T>, or NoThread
    pc,             \* each thread's position in its current facade call
    call,           \* each thread's current (or last finished) call
    read,           \* each thread's handler-local value read from the state
    notifications,  \* the payloads emitted on STATE_UPDATE_EVENT, in order
    incs,           \* handler bodies of "inc" that have run to their end
    lastReg,        \* the config of the latest register_state_manager call
    ops,            \* facade calls started
    emitFails,      \* calls of app.emit that returned an error
    lastOk,         \* what the latest dispatch that returned Ok returned
    dirty,          \* a dispatch changed the state and did not return Ok since
    fx,             \* the library function under evaluation (LibSpec)
    builder,        \* a StateBuilder and the calls made on it (LibSpec)
    setup,          \* how the plugin was created: init(state_manager) or init_empty()
    app             \* the example app and its calls so far (AppSpec)

vars == <<managed, lockOwner, innerOwner, pc, call, read, notifications,
          incs, lastReg, ops, emitFails, lastOk, dirty, fx, builder, setup, app>>

NoThread == "none"

\* A facade call of one thread: its arguments, the locals of desktop.rs
\* dispatch (current, updated), and what it did so far.
NewCall(op, action, key, slot) ==
    [op |-> op, action |-> action, key |-> key,
     poisonedAtStart |-> slot.poisoned,
     cfg |-> slot.cfg,
     held |-> None,          \* the state T when the call took the lock
     current |-> None,       \* dispatch's `current`
     invoked |-> <<>>,       \* the handlers invoked, in order
     hres |-> None,          \* what the handler returned
     after |-> None,         \* the state T when the reducer serialized it
     updated |-> None,       \* dispatch's `updated`
     emitted |-> 0,          \* calls of app.emit
     payload |-> None,       \* the payload given to app.emit
     panicked |-> FALSE,
     emit |-> None,          \* whether app.emit, if called, returned Ok
     listener |-> None,      \* what a listener's re-entrant read returned
     installed |-> FALSE,    \* is_registered: a store was installed before the call
     ret |-> None]           \* the call's return value

NoCall == NewCall("none", Action_new(""), <<>>, Unregistered)

\* What the callers pass.
Kinds == {"INCREMENT", "BUMP", "NOOP", "REJECT", "CRASH", "UNKNOWN"}
KindOnlyKinds == {"INCREMENT", "UNKNOWN"}
Keys == {<<>>, <<"c", "o", "u", "n", "t", "e", "r">>}

\* How the plugin is created: init(state_manager) with a store of one of the
\* configs, or init_empty().
Setups ==
    {[fn |-> "init_empty", cfg |-> "none"]} \cup {[fn |-> "init", cfg |-> c] : c \in Configs}

\* setup or a register_state_manager call that has returned installed a store.
Installed == setup.fn = "init" \/ lastReg # "none"

\* No example app is running.
NoApp == [run |-> "none"]

\* No library function is under evaluation.
NoEval == [fn |-> "none"]

\* StateBuilder::new(initial) with no call made on it yet.
NewBuilder ==
    [b |-> StateBuilder_new(initial_state("strict")), history |-> <<>>, built |-> None]

\* The state after the plugin's setup closure has run.
Init ==
    /\ setup \in Setups
    /\ managed = IF setup.fn = "init" THEN init(setup.cfg) ELSE init_empty
    /\ lockOwner = NoThread
    /\ innerOwner = NoThread
    /\ pc = [t \in Threads |-> "idle"]
    /\ call = [t \in Threads |-> NoCall]
    /\ read = [t \in Threads |-> 0]
    /\ notifications = <<>>
    /\ incs = 0
    /\ lastReg = "none"
    /\ ops = 0
    /\ emitFails = 0
    /\ lastOk = None
    /\ dirty = FALSE
    /\ fx = NoEval
    /\ builder = NewBuilder
    /\ app = NoApp


\* Faulty variant of lock_free: lock() never waits for the holder.
lock_free_always(owner) == TRUE

\* Mutex::lock blocks while another thread holds the guard.
lock_free(owner) == owner = NoThread

Return(t, c, r) ==
    /\ call' = [call EXCEPT ![t] = [c EXCEPT !.ret = Some(r)]]
    /\ pc' = [pc EXCEPT ![t] = "idle"]

\* ------------------------------------------------------- Rstate::dispatch

\* dispatch / dispatch_kind entry and `self.state_manager()?`.
DispatchBegin(t, op, action) ==
    /\ pc[t] = "idle"
    /\ ops < MaxOps
    /\ ops' = ops + 1
    /\ LET c == NewCall(op, action, <<>>, managed)
           sm == state_manager(managed)
       IN IF sm.ok
          THEN /\ call' = [call EXCEPT ![t] = c]
               /\ pc' = [pc EXCEPT ![t] = "d_lock"]
          ELSE Return(t, c, sm)
    /\ UNCHANGED <<managed, lockOwner, innerOwner, read, notifications, incs, lastReg>>
    /\ UNCHANGED <<emitFails, lastOk, dirty, fx, builder, setup, app>>

\* `state_manager.lock().map_err(LockPoisoned)?`
DispatchLock(t) ==
    /\ pc[t] = "d_lock"
    /\ lock_free(lockOwner)
    /\ LET lr == lock_result(managed)
       IN IF lr.ok
          THEN /\ lockOwner' = t
               /\ call' = [call EXCEPT ![t].held = Some(managed.state)]
               /\ pc' = [pc EXCEPT ![t] = "d_snapshot"]
          ELSE /\ Return(t, call[t], lr)
               /\ UNCHANGED lockOwner
    /\ UNCHANGED <<managed, innerOwner, read, notifications, incs, lastReg, ops>>
    /\ UNCHANGED <<emitFails, lastOk, dirty, fx, builder, setup, app>>

\* `let current = state_guard.get_initial_state();`
DispatchSnapshot(t) ==
    /\ pc[t] = "d_snapshot"
    /\ lock_free(innerOwner)
    /\ call' = [call EXCEPT ![t].current = Some(reducer_get_initial_state(managed))]
    /\ pc' = [pc EXCEPT ![t] = "d_inner"]
    /\ UNCHANGED <<managed, lockOwner, innerOwner, read, notifications, incs, lastReg, ops>>
    /\ UNCHANGED <<emitFails, lastOk, dirty, fx, builder, setup, app>>


\* Faulty variant of release_outer: the guard is kept, not dropped.
release_outer_kept(owner, t) == owner

\* The facade's guard is dropped when dispatch leaves its inner block.
release_outer(owner, t) == IF owner = t THEN NoThread ELSE owner

\* BuiltStateManager::dispatch: `self.state.lock()`, the handler lookup, and
\* the selected handler's read of the state.
DispatchInner(t) ==
    /\ pc[t] = "d_inner"
    /\ lock_free(innerOwner)
    /\ IF managed.innerPoisoned
       THEN /\ Return(t, call[t], Err("LockPoisoned", "inner"))
            /\ lockOwner' = release_outer(lockOwner, t)
            /\ UNCHANGED <<innerOwner, read>>
       ELSE LET h == SelectHandler(managed.cfg, call[t].action.kind)
            IN /\ innerOwner' = t
               /\ UNCHANGED lockOwner
               /\ IF h.some
                  THEN /\ call' = [call EXCEPT ![t].invoked = Append(@, h.val)]
                       /\ read' = [read EXCEPT ![t] = HandlerRead(h.val, managed.state)]
                       /\ pc' = [pc EXCEPT ![t] = "d_handler"]
                  ELSE /\ pc' = [pc EXCEPT ![t] = "d_serialize"]
                       /\ UNCHANGED <<call, read>>
    /\ UNCHANGED <<managed, notifications, incs, lastReg, ops>>
    /\ UNCHANGED <<emitFails, lastOk, dirty, fx, builder, setup, app>>


\* Faulty variant of handler_continues: the handler's result is dropped.
handler_continues_always(res) == TRUE

\* What BuiltStateManager::dispatch does with the handler's result: `?`
\* returns the handler's error, otherwise the state is serialized.
handler_continues(res) == res.ok

\* The handler's body writes and returns (or panics). A panic unwinds through
\* both guards, which poisons both mutexes; an error drops both guards.
DispatchHandler(t) ==
    /\ pc[t] = "d_handler"
    /\ LET h == call[t].invoked[Len(call[t].invoked)]
           out == HandlerRun(h, managed.state, read[t], call[t].action)
       IN IF out.panicked
          THEN /\ managed' = [managed EXCEPT !.state = out.state,
                                             !.poisoned = TRUE,
                                             !.innerPoisoned = TRUE]
               /\ call' = [call EXCEPT ![t].panicked = TRUE]
               /\ pc' = [pc EXCEPT ![t] = "idle"]
               /\ innerOwner' = NoThread
               /\ lockOwner' = release_outer(lockOwner, t)
               /\ dirty' = (dirty \/ out.state # managed.state)
               /\ UNCHANGED incs
          ELSE /\ managed' = [managed EXCEPT !.state = out.state]
               /\ incs' = IF h = "inc" THEN incs + 1 ELSE incs
               /\ IF handler_continues(out.res)
                  THEN /\ call' = [call EXCEPT ![t].hres = Some(out.res)]
                       /\ pc' = [pc EXCEPT ![t] = "d_serialize"]
                       /\ UNCHANGED <<innerOwner, lockOwner, dirty>>
                  ELSE /\ Return(t, [call[t] EXCEPT !.hres = Some(out.res)], out.res)
                       /\ innerOwner' = NoThread
                       /\ lockOwner' = release_outer(lockOwner, t)
                       /\ dirty' = (dirty \/ out.state # managed.state)
    /\ UNCHANGED <<read, notifications, lastReg, ops, emitFails, lastOk, fx, builder, setup, app>>

\* `serde_json::to_value(&*state)` and the reducer's guard dropped at return.
DispatchSerialize(t) ==
    /\ pc[t] = "d_serialize"
    /\ call' = [call EXCEPT ![t].after = Some(managed.state),
                            ![t].updated = Some(to_value(managed.state))]
    /\ innerOwner' = NoThread
    /\ pc' = [pc EXCEPT ![t] = "d_unlock"]
    /\ UNCHANGED <<managed, lockOwner, read, notifications, incs, lastReg, ops>>
    /\ UNCHANGED <<emitFails, lastOk, dirty, fx, builder, setup, app>>

\* The end of the block: "Lock is released here".
DispatchUnlock(t) ==
    /\ pc[t] = "d_unlock"
    /\ lockOwner' = release_outer(lockOwner, t)
    /\ pc' = [pc EXCEPT ![t] = "d_emit"]
    /\ UNCHANGED <<managed, innerOwner, call, read, notifications, incs, lastReg, ops>>
    /\ UNCHANGED <<emitFails, lastOk, dirty, fx, builder, setup, app>>

\* Faulty variant of should_emit: no change is ever detected.
should_emit_never(current, updated) == FALSE

\* Whether dispatch emits: `!states_are_equal(&current_state, &updated_state)`.
should_emit(current, updated) == ~states_are_equal(current, updated)

\* Faulty variant of emit_result: the result of app.emit is dropped.
emit_result_ignored(emit_ok, updated) == Ok(updated)

\* What dispatch returns after app.emit: `.map_err(Emit)?` returns the
\* emission's error, otherwise Ok(updated_state).
emit_result(emit_ok, updated) ==
    IF emit_ok THEN Ok(updated) ELSE Err("Emit", "emit failed")

\* A dispatch returns r: the ghosts of the latest Ok result.
Returned(r) ==
    IF r.ok THEN lastOk' = Some(r.val) /\ dirty' = FALSE
            ELSE dirty' = TRUE /\ UNCHANGED lastOk

\* The comparison, app.emit (which may fail) and the return. app.emit runs
\* the event's Rust listeners on the emitting thread before it returns: a
\* listener may read the store (ListenerLock, ListenerRead) before dispatch
\* returns.
DispatchEmit(t) ==
    /\ pc[t] = "d_emit"
    /\ LET c == call[t]
       IN IF should_emit(c.current.val, c.updated.val)
          THEN \E emit_ok, reenters \in BOOLEAN :
                  LET e == [c EXCEPT !.emitted = @ + 1, !.payload = c.updated,
                                     !.emit = Some(emit_ok)]
                      r == emit_result(emit_ok, c.updated.val)
                  IN /\ notifications' = IF emit_ok THEN Append(notifications, c.updated.val)
                                                    ELSE notifications
                     /\ emitFails' = IF emit_ok THEN emitFails ELSE emitFails + 1
                     /\ IF emit_ok /\ reenters
                        THEN /\ call' = [call EXCEPT ![t] = e]
                             /\ pc' = [pc EXCEPT ![t] = "l_lock"]
                             /\ UNCHANGED <<lastOk, dirty>>
                        ELSE /\ ~reenters
                             /\ Return(t, e, r)
                             /\ Returned(r)
          ELSE /\ UNCHANGED <<notifications, emitFails>>
               /\ Return(t, c, Ok(c.updated.val))
               /\ Returned(Ok(c.updated.val))
    /\ UNCHANGED <<managed, lockOwner, innerOwner, read, incs, lastReg, ops, fx, builder, setup, app>>

\* The listener's get_initial_state on the emitting thread:
\* `state_manager.lock()`. On a poisoned lock the listener's read fails and
\* app.emit returns.
ListenerLock(t) ==
    /\ pc[t] = "l_lock"
    /\ lock_free(lockOwner)
    /\ LET lr == lock_result(managed)
       IN IF lr.ok
          THEN /\ lockOwner' = t
               /\ pc' = [pc EXCEPT ![t] = "l_read"]
               /\ UNCHANGED <<call, lastOk, dirty>>
          ELSE /\ Return(t, [call[t] EXCEPT !.listener = Some(lr)],
                         Ok(call[t].updated.val))
               /\ Returned(Ok(call[t].updated.val))
               /\ UNCHANGED lockOwner
    /\ UNCHANGED <<managed, innerOwner, read, notifications, incs, lastReg, ops,
                   emitFails, fx, builder, setup, app>>

\* The listener's read and its guard dropped; app.emit returns Ok and
\* dispatch returns Ok(updated_state).
ListenerRead(t) ==
    /\ pc[t] = "l_read"
    /\ lock_free(innerOwner)
    /\ Return(t, [call[t] EXCEPT !.listener = Some(Ok(reducer_get_initial_state(managed)))],
              Ok(call[t].updated.val))
    /\ Returned(Ok(call[t].updated.val))
    /\ lockOwner' = release_outer(lockOwner, t)
    /\ UNCHANGED <<managed, innerOwner, read, notifications, incs, lastReg, ops,
                   emitFails, fx, builder, setup, app>>

\* --------------------------------- Rstate::get_initial_state and get_state

ReadBegin(t, op, key) ==
    /\ pc[t] = "idle"
    /\ ops < MaxOps
    /\ ops' = ops + 1
    /\ LET c == NewCall(op, Action_new(""), key, managed)
           sm == state_manager(managed)
       IN IF sm.ok
          THEN /\ call' = [call EXCEPT ![t] = c]
               /\ pc' = [pc EXCEPT ![t] = "r_lock"]
          ELSE Return(t, c, sm)
    /\ UNCHANGED <<managed, lockOwner, innerOwner, read, notifications, incs, lastReg>>
    /\ UNCHANGED <<emitFails, lastOk, dirty, fx, builder, setup, app>>

ReadLock(t) ==
    /\ pc[t] = "r_lock"
    /\ lock_free(lockOwner)
    /\ LET lr == lock_result(managed)
       IN IF lr.ok
          THEN /\ lockOwner' = t
               /\ call' = [call EXCEPT ![t].held = Some(managed.state)]
               /\ pc' = [pc EXCEPT ![t] = "r_read"]
          ELSE /\ Return(t, call[t], lr)
               /\ UNCHANGED lockOwner
    /\ UNCHANGED <<managed, innerOwner, read, notifications, incs, lastReg, ops>>
    /\ UNCHANGED <<emitFails, lastOk, dirty, fx, builder, setup, app>>

\* Faulty variant of ReadFinish: the read takes the state out of the store
\* and leaves the initial one.
ReadFinish_taking(t) ==
    /\ pc[t] = "r_read"
    /\ lock_free(innerOwner)
    /\ LET full == reducer_get_initial_state(managed)
       IN Return(t, call[t],
                 IF call[t].op = "get_state" THEN Ok(get_state(full, call[t].key))
                                             ELSE Ok(full))
    /\ managed' = [managed EXCEPT !.state = initial_state(managed.cfg)]
    /\ lockOwner' = release_outer(lockOwner, t)
    /\ UNCHANGED <<innerOwner, read, notifications, incs, lastReg, ops>>
    /\ UNCHANGED <<emitFails, lastOk, dirty, fx, builder, setup, app>>

\* `state_guard.get_initial_state()`, for get_state the key lookup, and the
\* guard dropped at return.
ReadFinish(t) ==
    /\ pc[t] = "r_read"
    /\ lock_free(innerOwner)
    /\ LET full == reducer_get_initial_state(managed)
       IN Return(t, call[t],
                 IF call[t].op = "get_state" THEN Ok(get_state(full, call[t].key))
                                             ELSE Ok(full))
    /\ lockOwner' = release_outer(lockOwner, t)
    /\ UNCHANGED <<managed, innerOwner, read, notifications, incs, lastReg, ops>>
    /\ UNCHANGED <<emitFails, lastOk, dirty, fx, builder, setup, app>>

\* ------------------------- Rstate::is_registered, register_state_manager

IsRegistered(t) ==
    /\ pc[t] = "idle"
    /\ ops < MaxOps
    /\ ops' = ops + 1
    /\ Return(t, [NewCall("is_registered", Action_new(""), <<>>, managed)
                      EXCEPT !.installed = Installed],
              Ok(Boolean(is_registered(managed))))
    /\ UNCHANGED <<managed, lockOwner, innerOwner, read, notifications, incs, lastReg>>
    /\ UNCHANGED <<emitFails, lastOk, dirty, fx, builder, setup, app>>

\* register_state_manager: a new store, app.manage(state), Ok(()).
Register(t, c) ==
    /\ pc[t] = "idle"
    /\ ops < MaxOps
    /\ ops' = ops + 1
    /\ managed' = manage(managed, NewStore(c))
    /\ lastReg' = c
    /\ Return(t, NewCall("register_state_manager", Action_new(""), <<>>, managed), Ok(Unit))
    /\ UNCHANGED <<lockOwner, innerOwner, read, notifications, incs>>
    /\ UNCHANGED <<emitFails, lastOk, dirty, fx, builder, setup, app>>

Next ==
    \E t \in Threads :
        \/ \E k \in Kinds : DispatchBegin(t, "dispatch", Action_new(k))
        \/ \E k \in KindOnlyKinds : DispatchBegin(t, "dispatch_kind", Action_new(k))
        \/ DispatchLock(t)
        \/ DispatchSnapshot(t)
        \/ DispatchInner(t)
        \/ DispatchHandler(t)
        \/ DispatchSerialize(t)
        \/ DispatchUnlock(t)
        \/ DispatchEmit(t)
        \/ ListenerLock(t)
        \/ ListenerRead(t)
        \/ ReadBegin(t, "get_initial_state", <<>>)
        \/ \E key \in Keys : ReadBegin(t, "get_state", key)
        \/ ReadLock(t)
        \/ ReadFinish(t)
        \/ IsRegistered(t)
        \/ \E c \in Configs : Register(t, c)

Spec == Init /\ [][Next]_vars

\* The steps of a call in progress on thread t: everything but the start of
\* a new call.
Progress(t) ==
    \/ DispatchLock(t)
    \/ DispatchSnapshot(t)
    \/ DispatchInner(t)
    \/ DispatchHandler(t)
    \/ DispatchSerialize(t)
    \/ DispatchUnlock(t)
    \/ DispatchEmit(t)
    \/ ListenerLock(t)
    \/ ListenerRead(t)
    \/ ReadLock(t)
    \/ ReadFinish(t)

\* Fair scheduling: a thread whose next step stays possible takes it. Every
\* handler and every app.emit returns (their steps are single steps).
FairSpec == Spec /\ \A t \in Threads : WF_vars(Progress(t))

\* ------------------------------------------ the library used on its own
\* The builder calls and the pure functions of models.rs and desktop.rs,
\* applied to inputs drawn from bounded sets, with the facade at rest.

MaxRegs == 3
BuilderKinds == {"INCREMENT", "NOOP"}
BuilderHandlers == {"inc", "noop", "reject"}

FacadeVars == <<managed, lockOwner, innerOwner, pc, call, read, notifications,
                incs, lastReg, ops, emitFails, lastOk, dirty, setup>>

LibInit ==
    /\ setup = [fn |-> "init_empty", cfg |-> "none"]
    /\ managed = Unregistered
    /\ lockOwner = NoThread
    /\ innerOwner = NoThread
    /\ pc = [t \in Threads |-> "idle"]
    /\ call = [t \in Threads |-> NoCall]
    /\ read = [t \in Threads |-> None]
    /\ notifications = <<>>
    /\ incs = 0
    /\ lastReg = "none"
    /\ ops = 0
    /\ emitFails = 0
    /\ lastOk = None
    /\ dirty = FALSE
    /\ fx = NoEval
    /\ builder = NewBuilder
    /\ app = NoApp

\* builder.on(kind, h)
BuilderOn(kind, h) ==
    /\ fx = NoEval
    /\ ~builder.built.some
    /\ Len(builder.history) < MaxRegs
    /\ builder' = [builder EXCEPT !.b = on(@, kind, h),
                                  !.history = Append(@, [call |-> "on", kind |-> kind, h |-> h])]
    /\ UNCHANGED fx
    /\ UNCHANGED FacadeVars
    /\ UNCHANGED app

\* builder.on_default(h)
BuilderOnDefault(h) ==
    /\ fx = NoEval
    /\ ~builder.built.some
    /\ Len(builder.history) < MaxRegs
    /\ builder' = [builder EXCEPT !.b = on_default(@, h),
                                  !.history = Append(@, [call |-> "on_default", kind |-> "", h |-> h])]
    /\ UNCHANGED fx
    /\ UNCHANGED FacadeVars
    /\ UNCHANGED app

\* builder.build()
BuilderBuild ==
    /\ fx = NoEval
    /\ ~builder.built.some
    /\ builder' = [builder EXCEPT !.built = Some(build(builder.b))]
    /\ UNCHANGED fx
    /\ UNCHANGED FacadeVars
    /\ UNCHANGED app

\* A library function is applied once, on its own: no function was applied
\* and no builder call was made before.
EvalReady == fx = NoEval /\ builder = NewBuilder

MaxKeyLen == 3
KeyAlphabet == {"a", "b", ".", "/", "~", "0", "1"}

\* The keys of get_state: every string over the alphabet up to MaxKeyLen
\* characters, and the documented examples.
LibKeys ==
    UNION {[1..n -> KeyAlphabet] : n \in 0..MaxKeyLen}
    \cup {<<"t", "h", "e", "m", "e", ".", "d", "a", "r", "k">>,
          <<"m", "i", "s", "s", "i", "n", "g", ".", "k", "e", "y">>}

\* The states get_state is applied to: nested mappings, member names with
\* '/', '~' and digits in them, a sequence, a scalar.
Roots ==
    {JObj([theme |-> JObj([dark |-> JBool(TRUE)])]),
     JObj(("a" :> JObj(("b" :> JNum(PosInt(0, 1))) @@ ("0" :> JNum(PosInt(0, 5)))))
          @@ ("a/b" :> JNum(PosInt(0, 2)))
          @@ ("~1" :> JNum(PosInt(0, 3)))
          @@ ("/" :> JNum(PosInt(0, 4)))
          @@ ("~" :> JNum(PosInt(0, 6)))),
     JObj([a |-> JArr(<<JStr("x"), JStr("y")>>), b |-> JNull]),
     JNum(PosInt(0, 7))}

\* get_state(root, key)
EvalGetState(root, key) ==
    /\ EvalReady
    /\ fx' = [fn |-> "get_state", root |-> root, key |-> key,
              out |-> get_state(root, key)]
    /\ UNCHANGED builder
    /\ UNCHANGED FacadeVars
    /\ UNCHANGED app

\* The values of each payload type the functions are applied to.
PayloadValues(ty) ==
    CASE ty = "i32" -> {-1, 0, 42}
      [] ty = "f64" -> {[k |-> "fin", w |-> 0, f |-> 0], [k |-> "fin", w |-> 1, f |-> 1],
                        [k |-> "inf"], [k |-> "-inf"], [k |-> "nan"]}
      [] ty = "bool" -> BOOLEAN
      [] ty = "String" -> {"", "hello"}
      [] ty = "unit" -> {Unit}
      [] ty = "u128" -> {[hi |-> 0, v |-> 7], [hi |-> 1, v |-> 0]}
      [] ty = "Option<i32>" -> {None, Some(0), Some(42)}
      [] ty = "Option<Option<i32>>" -> {None, Some(None), Some(Some(42))}
      [] OTHER -> {}

\* Action::new(kind).require_payload::<T>()
EvalRequireNew(kind, ty) ==
    /\ EvalReady
    /\ fx' = [fn |-> "require_new", kind |-> kind, ty |-> ty,
              action |-> Action_new(kind),
              out |-> require_payload(Action_new(kind), ty)]
    /\ UNCHANGED builder
    /\ UNCHANGED FacadeVars
    /\ UNCHANGED app

\* Action::with_payload(kind, v) and, when it is Ok, require_payload::<T>()
\* and payload_as::<T>() on the action.
EvalWithPayload(kind, ty, v) ==
    /\ EvalReady
    /\ LET made == with_payload(kind, ty, v)
       IN fx' = [fn |-> "with_payload", kind |-> kind, ty |-> ty, v |-> v,
                 made |-> made,
                 out |-> IF made.ok THEN require_payload(made.val, ty) ELSE made,
                 opt |-> IF made.ok THEN payload_as(made.val, ty) ELSE made]
    /\ UNCHANGED builder
    /\ UNCHANGED FacadeVars
    /\ UNCHANGED app

\* The actions a caller builds: without payload, and with a JSON payload.
WirePayloads == {JNull, JBool(FALSE), JNum(PosInt(0, 1)), JStr("")}
WireActions ==
    {Action_new(k) : k \in Kinds}
    \cup {Action_with_json(k, j) : k \in Kinds, j \in WirePayloads}

\* An action serialized by its sender and deserialized as the argument of
\* the dispatch command.
EvalActionWire(action) ==
    /\ EvalReady
    /\ fx' = [fn |-> "action_wire", action |-> action,
              wire |-> serialize_action(action),
              out |-> deserialize_action(serialize_action(action))]
    /\ UNCHANGED builder
    /\ UNCHANGED FacadeVars
    /\ UNCHANGED app

\* action.payload_as::<T>() and action.require_payload::<T>() on an action
\* as a handler receives it.
EvalPayloadAs(action, ty) ==
    /\ EvalReady
    /\ fx' = [fn |-> "payload_as", action |-> action, ty |-> ty,
              opt |-> payload_as(action, ty),
              req |-> require_payload(action, ty)]
    /\ UNCHANGED builder
    /\ UNCHANGED FacadeVars
    /\ UNCHANGED app

MaxArrayLen == 2

\* The JSON values the comparisons are applied to: scalars of every kind,
\* integers and floats that are equal, close and apart, sequences up to
\* MaxArrayLen, mappings over the members a and b, and one level of nesting.
CloseNumbers ==
    {JNum(PosInt(0, 1)), JNum(Float(1, 0)), JNum(Float(1, 1)), JNum(Float(1, 3))}
Scalars ==
    CloseNumbers
    \cup {JNull, JBool(TRUE), JBool(FALSE), JStr("a"), JNum(NegInt(-1)),
          JNum(PosInt(1, 0)), JNum(PosInt(1, 1))}
FlatArrays ==
    {JArr(q) : q \in UNION {[1..n -> CloseNumbers \cup {JNull}] : n \in 0..MaxArrayLen}}
FlatObjects ==
    {JObj(f) : f \in UNION {[D -> CloseNumbers] : D \in SUBSET {"a", "b"}}}
JsonValues ==
    Scalars \cup FlatArrays \cup FlatObjects
    \cup {JObj([a |-> x]) : x \in FlatArrays}
    \cup {JArr(<<x>>) : x \in FlatObjects}

\* JSON values whose leaves are null, booleans, integers of i64 and
\* strings: the empty or zero value of each type and another one, sequences
\* of them up to MaxArrayLen, mappings over the members a and b, and one
\* level of nesting.
ExactLeaves ==
    {JNull, JBool(FALSE), JBool(TRUE), JNum(PosInt(0, 0)), JNum(NegInt(-1)),
     JStr(""), JStr("a")}
ExactArrays ==
    {JArr(q) : q \in UNION {[1..n -> ExactLeaves] : n \in 0..MaxArrayLen}}
ExactObjects ==
    {JObj(f) : f \in UNION {[D -> ExactLeaves] : D \in SUBSET {"a", "b"}}}
ExactValues ==
    ExactLeaves \cup ExactArrays \cup ExactObjects
    \cup {JObj([a |-> x]) : x \in ExactObjects}
    \cup {JArr(<<x>>) : x \in ExactObjects}

\* states_are_equal on a pair, both ways round, and on a value and itself.
EvalStatesAreEqual(a, b) ==
    /\ EvalReady
    /\ fx' = [fn |-> "states_are_equal", a |-> a, b |-> b,
              aa |-> states_are_equal(a, a),
              ab |-> states_are_equal(a, b),
              ba |-> states_are_equal(b, a)]
    /\ UNCHANGED builder
    /\ UNCHANGED FacadeVars
    /\ UNCHANGED app

\* The states and keys state_changed is applied to.
ChangedStates == FlatObjects \cup {JObj([a |-> x]) : x \in FlatArrays}
ChangedKeys == {<<>>, <<"a">>, <<"b">>, <<"a", ".", "0">>}

\* state_changed(old_state, new_state, key)
EvalStateChanged(old_state, new_state, key) ==
    /\ EvalReady
    /\ fx' = [fn |-> "state_changed", old |-> old_state, new |-> new_state,
              key |-> key, out |-> state_changed(old_state, new_state, key)]
    /\ UNCHANGED builder
    /\ UNCHANGED FacadeVars
    /\ UNCHANGED app

LibNext ==
    \/ \E kind \in BuilderKinds, h \in BuilderHandlers : BuilderOn(kind, h)
    \/ \E h \in BuilderHandlers : BuilderOnDefault(h)
    \/ BuilderBuild
    \/ EvalReady /\ \E root \in Roots, key \in LibKeys : EvalGetState(root, key)
    \/ EvalReady /\ \E kind \in Kinds, ty \in PayloadTypes : EvalRequireNew(kind, ty)
    \/ EvalReady /\ \E kind \in Kinds, ty \in PayloadTypes :
                       \E v \in PayloadValues(ty) : EvalWithPayload(kind, ty, v)
    \/ EvalReady /\ \E action \in WireActions : EvalActionWire(action)
    \/ EvalReady /\ \E action \in WireActions, ty \in PayloadTypes :
                       EvalPayloadAs(action, ty)
    \/ EvalReady /\ \E a, b \in JsonValues : EvalStatesAreEqual(a, b)
    \/ EvalReady /\ \E a, b \in ExactValues : EvalStatesAreEqual(a, b)
    \/ EvalReady /\ \E old_state, new_state \in ChangedStates, key \in ChangedKeys :
                       EvalStateChanged(old_state, new_state, key)

LibSpec == LibInit /\ [][LibNext]_vars

\* ------------------------------------------------------ the example app
\* examples/svelte: the store of create_state_manager behind the facade, as
\* the desktop build and as the mobile build, called by one caller, one call
\* after the other, both builds receiving the same calls.

MaxCalls == 3

\* i32::MAX and i32::MIN, the range of AppState.counter.
I32Max == 2147483647
I32Min == -I32Max - 1

\* AppState::default(): #[derive(Default)] on { counter, message, todos }.
AppState_default == [counter |-> 0, message |-> "", todos |-> <<>>]

\* #[derive(Serialize)] of AppState and TodoItem.
app_to_value(s) ==
    JObj([counter |-> JNum(IF s.counter < 0 THEN NegInt(s.counter)
                                             ELSE PosInt(0, s.counter)),
          message |-> JStr(s.message),
          todos   |-> JArr([i \in 1..Len(s.todos) |->
                              JObj([id |-> JNum(PosInt(0, s.todos[i].id)),
                                    text |-> JStr(s.todos[i].text),
                                    completed |-> JBool(s.todos[i].completed)])])])

\* Faulty variant of ExampleHandler: SET_COUNTER and ADD_TODO write before
\* they look at the payload.
ExampleHandler_write_first(h, s, action, overflow_checks) ==
    CASE h = "increment" ->
            IF s.counter = I32Max
            THEN IF overflow_checks
                 THEN [state |-> s, res |-> Ok(Unit), panicked |-> TRUE]
                 ELSE [state |-> [s EXCEPT !.counter = I32Min], res |-> Ok(Unit),
                       panicked |-> FALSE]
            ELSE [state |-> [s EXCEPT !.counter = @ + 1], res |-> Ok(Unit),
                  panicked |-> FALSE]
      [] h = "decrement" ->
            IF s.counter = I32Min
            THEN IF overflow_checks
                 THEN [state |-> s, res |-> Ok(Unit), panicked |-> TRUE]
                 ELSE [state |-> [s EXCEPT !.counter = I32Max], res |-> Ok(Unit),
                       panicked |-> FALSE]
            ELSE [state |-> [s EXCEPT !.counter = @ - 1], res |-> Ok(Unit),
                  panicked |-> FALSE]
      [] h = "set_counter" ->
            LET r == require_payload(action, "i32")
            IN IF r.ok
               THEN [state |-> [s EXCEPT !.counter = r.val], res |-> Ok(Unit),
                     panicked |-> FALSE]
               ELSE [state |-> [s EXCEPT !.counter = 0], res |-> r, panicked |-> FALSE]
      [] h = "add_todo" ->
            LET r == require_payload(action, "String")
                id == Len(s.todos) + 1
            IN [state |-> [s EXCEPT !.todos =
                              Append(@, [id |-> id, text |-> IF r.ok THEN r.val ELSE "",
                                         completed |-> FALSE])],
                res |-> IF r.ok THEN Ok(Unit) ELSE r, panicked |-> FALSE]
      [] OTHER ->
            [state |-> s, res |-> Err("ActionNotFound", action.kind), panicked |-> FALSE]

\* The SET_COUNTER closure, r being what `action.require_payload()` gave:
\* `let v: i32 = action.require_payload()?; s.counter = v; Ok(())`.
set_counter(s, r) ==
    IF r.ok
    THEN [state |-> [s EXCEPT !.counter = r.val], res |-> Ok(Unit), panicked |-> FALSE]
    ELSE [state |-> s, res |-> r, panicked |-> FALSE]

\* The ADD_TODO closure, r being what `action.require_payload()` gave:
\* `let text: String = action.require_payload()?; let id = s.todos.len() + 1;
\* s.todos.push(TodoItem { id, text, completed: false }); Ok(())`.
add_todo(s, r) ==
    IF r.ok
    THEN [state |-> [s EXCEPT !.todos =
                        Append(@, [id |-> Len(s.todos) + 1, text |-> r.val,
                                   completed |-> FALSE])],
          res |-> Ok(Unit), panicked |-> FALSE]
    ELSE [state |-> s, res |-> r, panicked |-> FALSE]

\* The handler closures of create_state_manager, by name: the state each
\* leaves, what it returns, whether it panicked. `counter += 1` at i32::MAX
\* (and `-= 1` at i32::MIN) panics in a build with overflow checks and wraps
\* in a build without. `require_payload()?` returns the error before the
\* state is written.
ExampleHandler(h, s, action, overflow_checks) ==
    CASE h = "increment" ->
            IF s.counter = I32Max
            THEN IF overflow_checks
                 THEN [state |-> s, res |-> Ok(Unit), panicked |-> TRUE]
                 ELSE [state |-> [s EXCEPT !.counter = I32Min], res |-> Ok(Unit),
                       panicked |-> FALSE]
            ELSE [state |-> [s EXCEPT !.counter = @ + 1], res |-> Ok(Unit),
                  panicked |-> FALSE]
      [] h = "decrement" ->
            IF s.counter = I32Min
            THEN IF overflow_checks
                 THEN [state |-> s, res |-> Ok(Unit), panicked |-> TRUE]
                 ELSE [state |-> [s EXCEPT !.counter = I32Max], res |-> Ok(Unit),
                       panicked |-> FALSE]
            ELSE [state |-> [s EXCEPT !.counter = @ - 1], res |-> Ok(Unit),
                  panicked |-> FALSE]
      [] h = "set_counter" -> set_counter(s, require_payload(action, "i32"))
      [] h = "add_todo" -> add_todo(s, require_payload(action, "String"))
      [] OTHER ->
            [state |-> s, res |-> Err("ActionNotFound", action.kind), panicked |-> FALSE]

\* create_state_manager: the builder chain of the example.
create_state_manager ==
    build(on_default(
            on(on(on(on(StateBuilder_new(AppState_default),
                        "INCREMENT", "increment"),
                     "DECREMENT", "decrement"),
                  "SET_COUNTER", "set_counter"),
               "ADD_TODO", "add_todo"),
            "action_not_found"))

\* Mutex::new(Box::new(state_manager)): the reducer and the poison flags of
\* the facade's Mutex and of the reducer's Mutex<T>.
AppStore(reducer) == [reducer |-> reducer, poisoned |-> FALSE, innerPoisoned |-> FALSE]

\* BuiltStateManager::get_initial_state on the example's store.
BuiltStateManager_get_initial_state(store) ==
    IF store.innerPoisoned THEN JNull ELSE app_to_value(store.reducer.state)

\* BuiltStateManager::dispatch once the handler out has run: the guard holds
\* the state the handler left; a panic poisons both locks, an error other
\* than ActionNotFound is returned, anything else returns the serialized
\* state.
serialized(store, out) ==
    IF out.panicked
    THEN [store |-> [store EXCEPT !.reducer.state = out.state,
                                  !.poisoned = TRUE, !.innerPoisoned = TRUE],
          res |-> out.res, panicked |-> TRUE]
    ELSE [store |-> [store EXCEPT !.reducer.state = out.state],
          res |-> IF handler_continues(out.res)
                  THEN Ok(app_to_value(out.state)) ELSE out.res,
          panicked |-> FALSE]

\* BuiltStateManager::dispatch once the handler h was looked up: without a
\* handler the state is serialized as it is.
handled(store, action, overflow_checks, h) ==
    IF ~h.some
    THEN [store |-> store, res |-> Ok(app_to_value(store.reducer.state)),
          panicked |-> FALSE]
    ELSE serialized(store, ExampleHandler(h.val, store.reducer.state, action,
                                          overflow_checks))

\* BuiltStateManager::dispatch on the example's store, from lock to return:
\* the handler lookup, the handler, the serialization. A panic in the
\* handler unwinds through the reducer's guard and the facade's.
BuiltStateManager_dispatch(store, action, overflow_checks) ==
    IF store.innerPoisoned
    THEN [store |-> store, res |-> Err("LockPoisoned", "inner"), panicked |-> FALSE]
    ELSE handled(store, action, overflow_checks,
                 find_handler(store.reducer.handlers, store.reducer.default_handler,
                              action.kind))

\* What a facade call did: the slot it leaves, what it returned (nothing
\* when it unwound by a panic), its calls of app.emit and the payloads that
\* were delivered.
Outcome(slot, ret, emits, notes) ==
    [slot |-> slot, ret |-> ret, emits |-> emits, notes |-> notes]

\* desktop.rs Rstate::dispatch after the store's dispatch gave r, current
\* being the state read before it: `?` on the result, the change detection,
\* the emit after the guard is dropped.
desktop_after(current, r, emit_ok) ==
    IF r.panicked THEN Outcome(Some(r.store), None, 0, <<>>)
    ELSE IF ~r.res.ok THEN Outcome(Some(r.store), Some(r.res), 0, <<>>)
    ELSE IF should_emit(current, r.res.val)
    THEN Outcome(Some(r.store), Some(emit_result(emit_ok, r.res.val)), 1,
                 IF emit_ok THEN <<r.res.val>> ELSE <<>>)
    ELSE Outcome(Some(r.store), Some(Ok(r.res.val)), 0, <<>>)

\* desktop.rs Rstate::dispatch, from call to return.
desktop_dispatch(slot, action, emit_ok, overflow_checks) ==
    IF ~slot.some THEN Outcome(slot, Some(Err("NotRegistered", "")), 0, <<>>)
    ELSE IF slot.val.poisoned
    THEN Outcome(slot, Some(Err("LockPoisoned", "outer")), 0, <<>>)
    ELSE desktop_after(BuiltStateManager_get_initial_state(slot.val),
                       BuiltStateManager_dispatch(slot.val, action, overflow_checks),
                       emit_ok)

\* mobile.rs Rstate::dispatch after the store's dispatch gave r: the result
\* is returned as it is.
mobile_after(r) ==
    IF r.panicked THEN Outcome(Some(r.store), None, 0, <<>>)
    ELSE Outcome(Some(r.store), Some(r.res), 0, <<>>)

\* mobile.rs Rstate::dispatch, from call to return.
mobile_dispatch(slot, action, overflow_checks) ==
    IF ~slot.some THEN Outcome(slot, Some(Err("NotRegistered", "")), 0, <<>>)
    ELSE IF slot.val.poisoned
    THEN Outcome(slot, Some(Err("LockPoisoned", "outer")), 0, <<>>)
    ELSE mobile_after(BuiltStateManager_dispatch(slot.val, action, overflow_checks))

\* lib.rs: Rstate is desktop::Rstate under cfg(desktop) and mobile::Rstate
\* under cfg(mobile).
Rstate_dispatch(platform, slot, action, emit_ok, overflow_checks) ==
    IF platform = "desktop" THEN desktop_dispatch(slot, action, emit_ok, overflow_checks)
                            ELSE mobile_dispatch(slot, action, overflow_checks)

\* Rstate::dispatch_kind: `self.dispatch(Action::new(kind))`.
dispatch_kind(platform, slot, kind, emit_ok, overflow_checks) ==
    Rstate_dispatch(platform, slot, Action_new(kind), emit_ok, overflow_checks)

\* Rstate::dispatch_with once Action::with_payload gave made: `?` returns its
\* error, otherwise the action is dispatched.
dispatch_made(platform, slot, made, emit_ok, overflow_checks) ==
    IF made.ok
    THEN Rstate_dispatch(platform, slot, made.val, emit_ok, overflow_checks)
    ELSE Outcome(slot, Some(made), 0, <<>>)

\* Faulty variant of dispatch_with: the store is looked up before the
\* payload is serialized.
dispatch_with_store_first(platform, slot, kind, ty, v, emit_ok, overflow_checks) ==
    LET made == with_payload(kind, ty, v)
    IN IF ~slot.some THEN Outcome(slot, Some(Err("NotRegistered", "")), 0, <<>>)
       ELSE IF made.ok
       THEN Rstate_dispatch(platform, slot, made.val, emit_ok, overflow_checks)
       ELSE Outcome(slot, Some(made), 0, <<>>)

\* Rstate::dispatch_with: `self.dispatch(Action::with_payload(kind, payload)?)`.
dispatch_with(platform, slot, kind, ty, v, emit_ok, overflow_checks) ==
    dispatch_made(platform, slot, with_payload(kind, ty, v), emit_ok, overflow_checks)

\* The action a call of dispatch_with dispatched, if with_payload made one.
made_action(made) == IF made.ok THEN Some(made.val) ELSE None

\* The latest call of the example app: the facade function, its arguments,
\* the desktop slot before it, and its outcome on each build.
AppCall(fn, kind, action, ty, v, emit_ok, pre, d, m) ==
    [fn |-> fn, kind |-> kind, action |-> action, ty |-> ty, v |-> v,
     emit_ok |-> emit_ok, pre |-> pre, d |-> d, m |-> m]

NoAppCall ==
    AppCall("none", "", None, "unit", Unit, TRUE, None,
            Outcome(None, None, 0, <<>>), Outcome(None, None, 0, <<>>))

\* The example's run(): the plugin created with init(create_state_manager())
\* (or, for comparison, with init_empty() and no store), in a build with or
\* without overflow checks.
AppInit ==
    /\ setup \in {[fn |-> "init_empty", cfg |-> "none"], [fn |-> "init", cfg |-> "example"]}
    /\ \E overflow_checks \in BOOLEAN :
          LET slot == IF setup.fn = "init" THEN Some(AppStore(create_state_manager))
                                           ELSE None
          IN app = [run |-> "example", overflow_checks |-> overflow_checks,
                    desktop |-> slot, mobile |-> slot,
                    dnotes |-> <<>>, mnotes |-> <<>>, n |-> 0, last |-> NoAppCall]
    /\ managed = Unregistered
    /\ lockOwner = NoThread
    /\ innerOwner = NoThread
    /\ pc = [t \in Threads |-> "idle"]
    /\ call = [t \in Threads |-> NoCall]
    /\ read = [t \in Threads |-> None]
    /\ notifications = <<>>
    /\ incs = 0
    /\ lastReg = "none"
    /\ ops = 0
    /\ emitFails = 0
    /\ lastOk = None
    /\ dirty = FALSE
    /\ fx = NoEval
    /\ builder = NewBuilder

\* The call's outcomes d (desktop) and m (mobile) become the app's state.
AppReturn(c) ==
    /\ app' = [app EXCEPT !.desktop = c.d.slot, !.mobile = c.m.slot,
                          !.dnotes = @ \o c.d.notes, !.mnotes = @ \o c.m.notes,
                          !.n = @ + 1, !.last = c]
    /\ UNCHANGED <<managed, lockOwner, innerOwner, pc, call, read, notifications,
                   incs, lastReg, ops, emitFails, lastOk, dirty, fx, builder, setup>>

\* app.rstate().dispatch(action)
AppDispatch(action, emit_ok) ==
    /\ app.n < MaxCalls
    /\ AppReturn(AppCall("dispatch", action.kind, Some(action), "unit", Unit, emit_ok,
                         app.desktop,
                         Rstate_dispatch("desktop", app.desktop, action, emit_ok,
                                         app.overflow_checks),
                         Rstate_dispatch("mobile", app.mobile, action, emit_ok,
                                         app.overflow_checks)))

\* app.rstate().dispatch_kind(kind)
AppDispatchKind(kind, emit_ok) ==
    /\ app.n < MaxCalls
    /\ AppReturn(AppCall("dispatch_kind", kind, Some(Action_new(kind)), "unit", Unit,
                         emit_ok, app.desktop,
                         dispatch_kind("desktop", app.desktop, kind, emit_ok,
                                       app.overflow_checks),
                         dispatch_kind("mobile", app.mobile, kind, emit_ok,
                                       app.overflow_checks)))

\* app.rstate().dispatch_with(kind, v) for v of type ty
AppDispatchWith(kind, ty, v, emit_ok) ==
    /\ app.n < MaxCalls
    /\ AppReturn(AppCall("dispatch_with", kind, made_action(with_payload(kind, ty, v)),
                         ty, v, emit_ok, app.desktop,
                         dispatch_with("desktop", app.desktop, kind, ty, v, emit_ok,
                                       app.overflow_checks),
                         dispatch_with("mobile", app.mobile, kind, ty, v, emit_ok,
                                       app.overflow_checks)))

\* What the example's callers pass.
AppKinds == {"INCREMENT", "DECREMENT", "SET_COUNTER", "ADD_TODO", "UNKNOWN"}
AppPayloads == {JNum(PosInt(0, I32Max)), JNum(NegInt(I32Min)), JStr("a")}
AppActions ==
    {Action_new(k) : k \in AppKinds}
    \cup {Action_with_json(k, j) : k \in AppKinds, j \in AppPayloads}
AppTyped ==
    <<[kind |-> "SET_COUNTER", ty |-> "i32", v |-> 41],
      [kind |-> "ADD_TODO", ty |-> "String", v |-> "b"],
      [kind |-> "SET_COUNTER", ty |-> "u128", v |-> [hi |-> 1, v |-> 0]],
      [kind |-> "INCREMENT", ty |-> "u128", v |-> [hi |-> 1, v |-> 0]]>>

AppNext ==
    \/ \E action \in AppActions, emit_ok \in BOOLEAN : AppDispatch(action, emit_ok)
    \/ \E kind \in AppKinds, emit_ok \in BOOLEAN : AppDispatchKind(kind, emit_ok)
    \/ \E i \in DOMAIN AppTyped, emit_ok \in BOOLEAN :
          AppDispatchWith(AppTyped[i].kind, AppTyped[i].ty, AppTyped[i].v, emit_ok)

AppSpec == AppInit /\ [][AppNext]_vars

\* ------------------------------------------------------------------ claims

DispatchOps == {"dispatch", "dispatch_kind"}
ReadOps == {"get_initial_state", "get_state"}

\* The positions at which a dispatch holds the facade's lock.
LockedPhase == {"d_snapshot", "d_inner", "d_handler", "d_serialize", "d_unlock"}

\* A call that has returned to its caller (or unwound by a panic).
Finished(t) == pc[t] = "idle" /\ call[t].op # "none"

\* A dispatch that ran the reducer's handler phase to its end and returned.
Completed(t) ==
    /\ Finished(t)
    /\ call[t].op \in DispatchOps
    /\ call[t].after.some

\* C1 (as claimed): a finished dispatch whose handler left the state as it
\* was when the dispatch took the lock emitted nothing; one whose handler
\* changed a field emitted exactly once, with the state it returns as payload;
\* no dispatch emits more than once.
C1_EmitIffChanged ==
    \A t \in Threads :
        /\ call[t].emitted <= 1
        /\ Completed(t) =>
              IF call[t].after.val = call[t].held.val
              THEN call[t].emitted = 0
              ELSE /\ call[t].emitted = 1
                   /\ call[t].payload = call[t].updated
                   /\ call[t].ret.val.ok => call[t].ret.val.val = call[t].payload.val

\* C2: no lost updates. At most one dispatch is in the handler phase of the
\* store, the value a running handler read is still the state's, and the
\* counter is the initial counter plus the number of INCREMENT handlers run.
C2_NoLostUpdates ==
    /\ Cardinality({t \in Threads : pc[t] \in LockedPhase}) <= 1
    /\ \A t \in Threads :
          pc[t] = "d_handler" =>
              read[t] = HandlerRead(call[t].invoked[1], managed.state)
    /\ is_registered(managed) =>
          managed.state.counter = initial_state(managed.cfg).counter + incs

\* C2 witness: an INCREMENT handler runs after an earlier one finished, while
\* the other thread waits for the lock with its own INCREMENT.
C2_Witness ==
    \E t, u \in Threads :
        /\ t # u
        /\ pc[t] = "d_handler" /\ call[t].invoked = <<"inc">>
        /\ pc[u] = "d_lock" /\ call[u].action.kind = "INCREMENT"
        /\ incs >= 1

\* C3: a thread at the emit step, or back at its caller, holds neither lock;
\* the facade's lock is held only from the snapshot to the end of the block
\* (or across a read), the reducer's only across handler and serialization.
C3_NoLockWhileEmitting ==
    \A t \in Threads :
        /\ pc[t] \in {"d_emit", "idle"} => lockOwner # t /\ innerOwner # t
        /\ lockOwner = t => pc[t] \in LockedPhase \cup {"r_read", "l_read"}
        /\ innerOwner = t => pc[t] \in {"d_handler", "d_serialize"}

\* C3 witness: a thread is at the emit step with a changed state to emit.
C3_Witness ==
    \E t \in Threads :
        /\ pc[t] = "d_emit"
        /\ ~states_are_equal(call[t].current.val, call[t].updated.val)
        /\ lockOwner # t

\* C4: a dispatch that took the lock of a store without default handler, for
\* a kind without handler, returns Ok(serialization of the state it found),
\* leaves the state as it found it, invokes nothing and emits nothing.
C4_UnknownKindIsNoop ==
    \A t \in Threads :
        ( /\ call[t].op \in DispatchOps
          /\ call[t].held.some
          /\ call[t].action.kind \notin DOMAIN handlers(call[t].cfg)
          /\ ~default_handler(call[t].cfg).some )
        => /\ call[t].invoked = <<>>
           /\ call[t].emitted = 0
           /\ pc[t] \in LockedPhase => managed.state = call[t].held.val
           /\ call[t].after.some => call[t].after = call[t].held
           /\ pc[t] = "idle" =>
                 call[t].ret = Some(Ok(to_value(call[t].held.val)))

\* C4 witness: an UNKNOWN dispatch on the "plain" store has returned.
C4_Witness ==
    \E t \in Threads :
        /\ Completed(t)
        /\ call[t].cfg = "plain"
        /\ call[t].action.kind = "UNKNOWN"
        /\ call[t].ret = Some(Ok(to_value(call[t].held.val)))

\* C5: a call started on a poisoned store never gets past the lock, invokes
\* no handler and returns LockPoisoned; and a poisoned store stays poisoned.
C5_PoisonedForever ==
    /\ [](\A t \in Threads :
            call[t].poisonedAtStart =>
                /\ pc[t] \in {"idle", "d_lock", "r_lock"}
                /\ call[t].invoked = <<>>
                /\ call[t].held = None
                /\ (pc[t] = "idle" /\ call[t].op \in DispatchOps \cup ReadOps) =>
                      /\ call[t].ret.some
                      /\ ~call[t].ret.val.ok
                      /\ call[t].ret.val.err = "LockPoisoned")
    /\ [][managed.poisoned => managed'.poisoned]_vars

\* C5 witness: after a panic, a dispatch and a read have both returned
\* LockPoisoned.
C5_Witness ==
    \E t, u \in Threads :
        /\ Finished(t) /\ call[t].op \in DispatchOps /\ call[t].poisonedAtStart
        /\ call[t].ret = Some(Err("LockPoisoned", "outer"))
        /\ Finished(u) /\ call[u].op \in ReadOps /\ call[u].poisonedAtStart
        /\ call[u].ret = Some(Err("LockPoisoned", "outer"))

\* C6: a dispatch, dispatch_kind, get_state or get_initial_state call made
\* while no store is registered returns NotRegistered at once, invokes no
\* handler and emits nothing.
C6_NotRegistered ==
    /\ \A t \in Threads :
          (call[t].op \in DispatchOps \cup ReadOps /\ call[t].cfg = "none") =>
              /\ pc[t] = "idle"
              /\ call[t].ret = Some(Err("NotRegistered", ""))
              /\ call[t].invoked = <<>>
              /\ call[t].emitted = 0
    /\ ~is_registered(managed) => notifications = <<>> /\ incs = 0

\* C6 witness: a dispatch_kind and a get_state both failed with NotRegistered.
C6_Witness ==
    \E t, u \in Threads :
        /\ call[t].op = "dispatch_kind" /\ call[t].ret = Some(Err("NotRegistered", ""))
        /\ call[u].op = "get_state" /\ call[u].ret = Some(Err("NotRegistered", ""))
        /\ ~is_registered(managed)

\* C7 (as claimed): after register_state_manager the managed store is the
\* one given to the latest call.
C7_RegisterReplaces ==
    lastReg # "none" => managed.cfg = lastReg

\* C8: no step takes the slot from registered back to unregistered, and
\* wherever is_registered has returned true the store is registered still.
C8_RegistrationMonotonic ==
    /\ [](\A t \in Threads :
            (call[t].op = "is_registered" /\ call[t].ret = Some(Ok(Boolean(TRUE))))
                => is_registered(managed))
    /\ [][is_registered(managed) => is_registered(managed')]_vars

\* C8 witness: is_registered has returned true, a call of
\* register_state_manager on the registered store has returned, and a handler
\* has panicked since; the store is registered still.
C8_Witness ==
    \E t, u \in Threads :
        /\ call[t].op = "is_registered" /\ call[t].ret = Some(Ok(Boolean(TRUE)))
        /\ call[u].op = "register_state_manager" /\ call[u].cfg # "none"
        /\ call[u].ret.some
        /\ managed.poisoned
        /\ is_registered(managed)

\* What the erroring handlers return.
HandlerError(h, action) ==
    IF h = "reject" THEN Err("State", "rejected")
                    ELSE Err("ActionNotFound", action.kind)

\* C9: a dispatch whose handler returned an error has returned exactly that
\* error, serialized no state and emitted nothing.
C9_HandlerErrorPropagates ==
    \A t \in Threads :
        /\ (pc[t] \in {"d_serialize", "d_unlock", "d_emit"} /\ call[t].invoked # <<>>) =>
              call[t].invoked[1] \notin {"reject", "not_found"}
        /\ (Finished(t) /\ ~call[t].panicked /\ call[t].invoked # <<>>
                /\ call[t].invoked[1] \in {"reject", "not_found"}) =>
              /\ call[t].ret = Some(HandlerError(call[t].invoked[1], call[t].action))
              /\ call[t].updated = None
              /\ call[t].emitted = 0
              /\ call[t].payload = None

\* C9 witness: the default handler's ActionNotFound came back from dispatch.
C9_Witness ==
    \E t \in Threads :
        /\ Finished(t)
        /\ call[t].invoked = <<"not_found">>
        /\ call[t].ret = Some(Err("ActionNotFound", "UNKNOWN"))

\* The handlers a dispatch of `kind` on a store of config c is to invoke.
ExpectedInvoked(c, kind) ==
    IF kind \in DOMAIN handlers(c) THEN <<handlers(c)[kind]>>
    ELSE IF default_handler(c).some THEN <<default_handler(c).val>>
    ELSE <<>>

\* C10: a dispatch invokes at most one handler: the kind's if there is one,
\* else the default if there is one, else none; and none before the
\* reducer's lookup.
C10_HandlerSelection ==
    \A t \in Threads :
        /\ Len(call[t].invoked) <= 1
        /\ (call[t].invoked # <<>> \/ call[t].after.some
              \/ pc[t] \in {"d_handler", "d_serialize", "d_unlock", "d_emit"}) =>
              call[t].invoked = ExpectedInvoked(call[t].cfg, call[t].action.kind)

\* C10 witness: on the "strict" store, which has a default handler, an
\* INCREMENT dispatch invoked the INCREMENT handler alone and returned.
C10_Witness ==
    \E t \in Threads :
        /\ Completed(t)
        /\ call[t].cfg = "strict"
        /\ call[t].action.kind = "INCREMENT"
        /\ call[t].invoked = <<"inc">>

\* The handler of the last on(kind, _) call of a history, if any.
RECURSIVE LastOn(_, _)
LastOn(history, kind) ==
    IF history = <<>> THEN None
    ELSE LET e == history[Len(history)]
         IN IF e.call = "on" /\ e.kind = kind THEN Some(e.h)
            ELSE LastOn(SubSeq(history, 1, Len(history) - 1), kind)

\* The handler of the last on_default call of a history, if any.
RECURSIVE LastOnDefault(_)
LastOnDefault(history) ==
    IF history = <<>> THEN None
    ELSE LET e == history[Len(history)]
         IN IF e.call = "on_default" THEN Some(e.h)
            ELSE LastOnDefault(SubSeq(history, 1, Len(history) - 1))

\* The handler table hs and default dh are those of the history's last calls.
LastWriteWins(hs, dh, history) ==
    /\ \A kind \in BuilderKinds :
          /\ kind \in DOMAIN hs <=> LastOn(history, kind).some
          /\ kind \in DOMAIN hs => hs[kind] = LastOn(history, kind).val
          /\ LastOn(history, kind).some =>
                 find_handler(hs, dh, kind) = LastOn(history, kind)
    /\ dh = LastOnDefault(history)

\* C11: after every on and on_default call (none of them fails: each leaves
\* its handler in the builder), and in the built reducer, the handler of a
\* kind is the one of the last on call for that kind and of no other, and
\* the default handler is the one of the last on_default call.
C11_LastWriteWins ==
    /\ LastWriteWins(builder.b.handlers, builder.b.default_handler, builder.history)
    /\ builder.built.some =>
          LastWriteWins(builder.built.val.handlers,
                        builder.built.val.default_handler, builder.history)

\* C11 witness: a reducer built after a kind was registered twice with
\* different handlers and a default handler was set.
C11_Witness ==
    /\ builder.built.some
    /\ \E i, j \in DOMAIN builder.history :
          /\ i < j
          /\ builder.history[i].call = "on" /\ builder.history[j].call = "on"
          /\ builder.history[i].kind = builder.history[j].kind
          /\ builder.history[i].h # builder.history[j].h
    /\ builder.built.val.default_handler.some


\* The serialized state of the counter store after k INCREMENTs.
CounterValue(k) == to_value(State(k, [hi |-> 0, v |-> 0], ""))

\* Thread t has just finished the latest of a run of dispatches of
\* Action::new("INCREMENT"), all made by t one after the other on the store
\* built with counter 0.
IncrementRun(t) ==
    /\ managed.cfg = "strict"
    /\ \A u \in Threads \ {t} : call[u] = NoCall /\ pc[u] = "idle"
    /\ Finished(t)
    /\ call[t].op \in DispatchOps
    /\ call[t].action = Action_new("INCREMENT")
    /\ ops = incs

SequentialRead(t) ==
    /\ \A u \in Threads \ {t} : call[u] = NoCall /\ pc[u] = "idle"
    /\ Finished(t)
    /\ call[t].op = "get_initial_state"
    /\ call[t].ret.val.ok

\* C13 (as claimed): in a sequential run get_initial_state returns what the
\* most recent successful dispatch returned, or the serialized initial state
\* if no dispatch has succeeded and no failed one changed the state.
C13_MostRecentSuccess ==
    \A t \in Threads :
        SequentialRead(t) =>
            IF lastOk.some
            THEN call[t].ret.val.val = lastOk.val
            ELSE ~dirty => call[t].ret.val.val = to_value(initial_state(managed.cfg))

\* C13 (amended): in a sequential run in which no dispatch that failed has
\* changed the state since the most recent successful dispatch (or since
\* the store was built), get_initial_state returns what that dispatch
\* returned (or the serialized initial state).
C13_MostRecentSuccessUnlessDirty ==
    \A t \in Threads :
        SequentialRead(t) /\ ~dirty =>
            call[t].ret.val.val = IF lastOk.some THEN lastOk.val
                                  ELSE to_value(initial_state(managed.cfg))

\* C13 witness: the third call of a sequential run is a read, after a
\* successful dispatch that changed the state, with no failed change since.
C13_Witness ==
    \E t \in Threads :
        /\ SequentialRead(t)
        /\ ~dirty
        /\ lastOk.some
        /\ lastOk.val # to_value(initial_state(managed.cfg))
        /\ ops = 3

\* The segments of a key between its dots, empty segments kept.
split_dots(key) ==
    LET RECURSIVE S(_, _, _)
        S(i, cur, acc) ==
            IF i > Len(key) THEN Append(acc, cur)
            ELSE IF key[i] = "." THEN S(i + 1, <<>>, Append(acc, cur))
            ELSE S(i + 1, Append(cur, key[i]), acc)
    IN S(1, <<>>, <<>>)

\* The value reached from root by looking up each segment of the key as a
\* member name (or as an index of a sequence), or none.
FollowSegments(root, key) ==
    LET segs == split_dots(key)
        RECURSIVE F(_, _)
        F(i, target) ==
            IF i > Len(segs) THEN Some(target)
            ELSE LET nxt == pointer_step(target, segs[i])
                 IN IF nxt.some THEN F(i + 1, nxt.val) ELSE None
    IN IF Len(key) = 0 THEN Some(root) ELSE F(1, root)

\* C14 (as claimed): get_state returns the root for the empty key and, for
\* any other key, the value reached by splitting the key on '.' and looking
\* each segment up, whatever characters the segments are made of.
C14_KeyPathResolution ==
    fx.fn = "get_state" => fx.out = FollowSegments(fx.root, fx.key)

\* C15 (as claimed): require_payload on Action::new(kind) is
\* MissingPayload(kind), and with_payload(kind, v), for a v it can
\* serialize, then require_payload of v's type gives v back.
C15_PayloadRoundTrip ==
    /\ fx.fn = "require_new" => fx.out = Err("MissingPayload", fx.kind)
    /\ fx.fn = "with_payload" /\ fx.made.ok => fx.out = Ok(fx.v)

\* A value whose serialization is null although the value is not the null
\* of its type: a non-finite float, a Some(None) of a nested Option.
SerializedAsNull(ty, v) ==
    \/ ty = "f64" /\ v.k # "fin"
    \/ ty = "Option<Option<i32>>" /\ v = Some(None)

\* C15 (amended): as claimed, for the values that are not a non-finite
\* float and hold no Some(None) of a nested Option.
C15_PayloadRoundTripUnlessNull ==
    /\ fx.fn = "require_new" => fx.out = Err("MissingPayload", fx.kind)
    /\ fx.fn = "with_payload" /\ fx.made.ok /\ ~SerializedAsNull(fx.ty, fx.v) =>
           fx.out = Ok(fx.v)

\* C15 witness: a payload that is not null came back from require_payload.
C15_Witness ==
    /\ fx.fn = "with_payload"
    /\ fx.made.ok
    /\ fx.made.val.payload.val # JNull
    /\ fx.out = Ok(fx.v)

\* C16 (as claimed): has_payload is false for Action::new(kind) and true for
\* an action with a present payload, null included, and the action that
\* arrives through serialization and deserialization has the same
\* has_payload.
C16_AbsentAndNullDistinct ==
    fx.fn = "action_wire" =>
        /\ has_payload(fx.action) <=> fx.action # Action_new(fx.action.kind)
        /\ fx.out.ok
        /\ has_payload(fx.out.val) <=> has_payload(fx.action)

\* C17: states_are_equal(x, x) is true for every value x, and
\* states_are_equal(a, b) = states_are_equal(b, a) for every pair.
C17_ReflexiveSymmetric ==
    fx.fn = "states_are_equal" => fx.aa /\ (fx.ab <=> fx.ba)

\* C17 witness: two different nested values, one holding an integer where
\* the other holds a float, compared equal both ways round.
C17_Witness ==
    /\ fx.fn = "states_are_equal"
    /\ fx.a = JObj([a |-> JArr(<<JNum(PosInt(0, 1)), JNull>>)])
    /\ fx.b = JObj([a |-> JArr(<<JNum(Float(1, 1)), JNull>>)])
    /\ fx.ab /\ fx.ba

\* C18 (as claimed): state_changed is false when the key resolves in neither
\* state, true when it resolves in one only, and otherwise true exactly
\* when the two resolved values are not equal under states_are_equal.
C18_ChangedIffNotStructurallyEqual ==
    fx.fn = "state_changed" =>
        LET old_value == get_state(fx.old, fx.key)
            new_value == get_state(fx.new, fx.key)
        IN fx.out <=>
              IF old_value.some /\ new_value.some
              THEN ~states_are_equal(old_value.val, new_value.val)
              ELSE old_value.some # new_value.some

\* C19 (as claimed): a dispatch whose reducer dispatch succeeded returns the
\* serialized state `after`, whatever the emission did.
C19_AlwaysReturnsAfter ==
    \A t \in Threads :
        Completed(t) => call[t].ret = Some(Ok(call[t].updated.val))

\* C19 (amended): a dispatch whose reducer dispatch succeeded returns
\* `after` when no notification was emitted and when the emission
\* succeeded, and the emission's error when the emission failed.
C19_ReturnsAfterUnlessEmitFails ==
    \A t \in Threads :
        Completed(t) =>
            call[t].ret = Some(IF call[t].emit = Some(FALSE)
                               THEN Err("Emit", "emit failed")
                               ELSE Ok(call[t].updated.val))

\* C19 witness: one dispatch returned after its emission succeeded, one
\* after its emission failed, one without emission.
C19_Witness ==
    \E t, u \in Threads :
        /\ Completed(t) /\ call[t].emit = Some(TRUE) /\ call[t].ret.val.ok
        /\ Completed(u) /\ call[u].emit = None /\ call[u].ret.val.ok
        /\ emitFails > 0

\* C20: under fair scheduling every call in progress on a thread returns:
\* a dispatch, a read, and the read a listener makes from inside a
\* dispatch's emit step.
C20_EveryCallReturns ==
    \A t \in Threads : (pc[t] # "idle") ~> (pc[t] = "idle")

\* C20 witness: a listener's re-entrant read holds the facade's lock inside
\* a dispatch's emit step while the other thread waits for the lock.
C20_Witness ==
    \E t, u \in Threads :
        /\ pc[t] = "l_read"
        /\ lockOwner = t
        /\ pc[u] \in {"d_lock", "r_lock"}

C22_RegisteredIffInstalled ==
    /\ \A t \in Threads :
          call[t].op = "is_registered" =>
              call[t].ret = Some(Ok(Boolean(call[t].installed)))
    /\ is_registered(managed) <=> Installed

\* C22 witness: after init_empty() one is_registered call returned false,
\* then a registration returned, then an is_registered call returned true.
C22_Witness ==
    \E t, u \in Threads :
        /\ setup.fn = "init_empty"
        /\ call[t].op = "is_registered" /\ call[t].ret = Some(Ok(Boolean(FALSE)))
        /\ call[u].op = "is_registered" /\ call[u].ret = Some(Ok(Boolean(TRUE)))
        /\ lastReg # "none"

\* C23 (as claimed), on the store whose only state-changing handler is
\* INCREMENT and with every emission delivered: whenever no call is in
\* progress, the notifications were emitted in the order of their counters
\* (the order in which the dispatches changed the state), and the latest
\* one carries the current serialized state.
C23_NotificationsInMutationOrder ==
    ( /\ managed.cfg = "strict"
      /\ emitFails = 0
      /\ \A t \in Threads : pc[t] = "idle"
      /\ notifications # <<>> )
    => /\ \A i, j \in DOMAIN notifications :
              i < j => notifications[i].v["counter"].v.v < notifications[j].v["counter"].v.v
       /\ notifications[Len(notifications)] = to_value(managed.state)

\* C25: a read (get_state, get_initial_state, a listener's read) that holds
\* the facade's lock runs while no dispatch is between taking that lock and
\* releasing it, so no handler is between its first read and its return;
\* and the value the read returns is the serialization (for get_state its
\* key-path projection) of the state as it is at that moment.
C25_ReadsAtomic ==
    /\ [](\A u \in Threads :
            pc[u] \in {"r_read", "l_read"} =>
                /\ lockOwner = u
                /\ innerOwner = NoThread
                /\ ~managed.innerPoisoned
                /\ \A t \in Threads : pc[t] \notin LockedPhase)
    /\ [][\A u \in Threads :
             /\ (pc[u] = "r_read" /\ pc'[u] = "idle") =>
                   call'[u].ret =
                       Some(Ok(IF call[u].op = "get_state"
                               THEN get_state(to_value(managed.state), call[u].key)
                               ELSE to_value(managed.state)))
             /\ (pc[u] = "l_read" /\ pc'[u] = "idle") =>
                   call'[u].listener = Some(Ok(to_value(managed.state)))]_vars

\* C25 witness: a read holds the lock on a state that handlers have
\* changed, while a dispatch of the other thread waits for the lock.
C25_Witness ==
    \E t, u \in Threads :
        /\ pc[u] = "r_read"
        /\ pc[t] = "d_lock"
        /\ managed.state # initial_state(managed.cfg)

\* C26: a dispatch whose handler changed the state (the message) and then
\* returned an error has returned that error and emitted nothing, and the
\* change stays in the state: no later step undoes it, every
\* get_initial_state that reads the state afterwards returns it, and every
\* later dispatch has it in its `before` snapshot.
C26_NoRollback ==
    /\ [](\A t \in Threads :
            (Finished(t) /\ call[t].invoked = <<"reject">>) =>
                /\ call[t].ret = Some(Err("State", "rejected"))
                /\ call[t].emitted = 0
                /\ call[t].payload = None
                /\ managed.state.message = "dirty")
    /\ [][managed.state.message = "dirty" =>
             /\ managed'.state.message = "dirty"
             /\ \A u \in Threads :
                   /\ (pc[u] = "r_read" /\ pc'[u] = "idle"
                          /\ call[u].op = "get_initial_state") =>
                         call'[u].ret.val.val.v["message"] = JStr("dirty")
                   /\ (pc[u] = "d_snapshot" /\ pc'[u] = "d_inner") =>
                         call'[u].current.val.v["message"] = JStr("dirty")]_vars

\* C26 witness: a dispatch returned its handler's error, and a dispatch
\* begun on the other thread has the failed handler's change in its
\* `before` snapshot and has returned.
C26_Witness ==
    \E t, u \in Threads :
        /\ Finished(t) /\ call[t].invoked = <<"reject">>
        /\ call[t].ret = Some(Err("State", "rejected"))
        /\ Completed(u)
        /\ call[u].current.val.v["message"] = JStr("dirty")
        /\ call[u].held.val.message = "dirty"
        /\ notifications = <<>>

\* Thread u takes a step of a get_state, get_initial_state or is_registered
\* call: the call begins, takes the lock, or returns.
ReadOnlyStep(u) ==
    /\ pc'[u] # pc[u] \/ call'[u] # call[u]
    /\ call'[u].op \in ReadOps \cup {"is_registered"}

\* C28: no step of a get_state, get_initial_state or is_registered call,
\* whether the call returns a value or an error, changes the managed slot
\* (the stored state, the store's handlers, whether a store is registered,
\* the locks' poison flags) or emits a notification.
C28_ReadsAreReadOnly ==
    [][\A u \in Threads :
          ReadOnlyStep(u) =>
              /\ managed' = managed
              /\ notifications' = notifications
              /\ emitFails' = emitFails
              /\ incs' = incs
              /\ lastReg' = lastReg]_vars

\* C28 witness: a read has returned a value and a read has returned an
\* error.
C28_Witness ==
    \E t, u \in Threads :
        /\ Finished(t) /\ call[t].op \in ReadOps /\ call[t].ret.val.ok
        /\ Finished(u) /\ call[u].op \in ReadOps /\ ~call[u].ret.val.ok

\* The reference definition of structural equality on values with null,
\* boolean, integer and string leaves: the same type on both sides and, per
\* type, the same boolean, integer or string; sequences of the same length
\* with equal elements in order; mappings with the same members and equal
\* values per member.
RECURSIVE structurallyEqual(_, _)
structurallyEqual(a, b) ==
    /\ a.t = b.t
    /\ CASE a.t = "null" -> TRUE
         [] a.t = "num" -> a.v.v = b.v.v
         [] a.t = "arr" ->
               /\ Len(a.v) = Len(b.v)
               /\ \A i \in 1..Len(a.v) : structurallyEqual(a.v[i], b.v[i])
         [] a.t = "obj" ->
               /\ DOMAIN a.v = DOMAIN b.v
               /\ \A key \in DOMAIN a.v : structurallyEqual(a.v[key], b.v[key])
         [] OTHER -> a.v = b.v

\* C27: on every pair of values with null, boolean, integer and string
\* leaves, states_are_equal is the reference structural equality; values
\* of different types are never equal.
C27_AgreesWithReference ==
    (fx.fn = "states_are_equal" /\ fx.a \in ExactValues /\ fx.b \in ExactValues) =>
        /\ fx.ab <=> structurallyEqual(fx.a, fx.b)
        /\ fx.a.t # fx.b.t => ~fx.ab

\* C27 witness: a mapping compared with one that has the same member with
\* the same value and one member more: not equal, in either direction.
C27_Witness ==
    /\ fx.fn = "states_are_equal"
    /\ fx.a = JObj([a |-> JNum(PosInt(0, 0))])
    /\ fx.b = JObj([a |-> JNum(PosInt(0, 0)), b |-> JBool(FALSE)])
    /\ ~fx.ab /\ ~fx.ba

\* C24 (as claimed): a dispatch call on the mobile build, its emission (if
\* any) delivered, returns what the same call returns on the desktop build,
\* leaves the same store and emits the same notifications: one when the
\* serialized state changed, none otherwise.
C24_MobileEquivalentToDesktop ==
    (app.run = "example" /\ app.last.fn # "none" /\ app.last.emit_ok) =>
        /\ app.last.m.ret = app.last.d.ret
        /\ app.last.m.slot = app.last.d.slot
        /\ app.last.m.notes = app.last.d.notes
        /\ app.last.m.emits = app.last.d.emits

\* C29: dispatch_kind(kind) has the outcome (return value, store, calls of
\* app.emit, notifications) of dispatch(Action::new(kind)) on the same
\* store; dispatch_with(kind, v) has the outcome of dispatch on the action
\* of Action::with_payload(kind, v) when that is Ok, and otherwise returns
\* the Serialization error whether or not a store is registered, leaves the
\* slot as it was and emits nothing. On both builds.
C29_WrappersDelegate ==
    app.run = "example" =>
        LET c == app.last
            oc == app.overflow_checks
            made == with_payload(c.kind, c.ty, c.v)
        IN /\ c.fn = "dispatch_kind" =>
                 /\ c.d = Rstate_dispatch("desktop", c.pre, Action_new(c.kind), c.emit_ok, oc)
                 /\ c.m = Rstate_dispatch("mobile", c.pre, Action_new(c.kind), c.emit_ok, oc)
           /\ (c.fn = "dispatch_with" /\ made.ok) =>
                 /\ c.d = Rstate_dispatch("desktop", c.pre, made.val, c.emit_ok, oc)
                 /\ c.m = Rstate_dispatch("mobile", c.pre, made.val, c.emit_ok, oc)
           /\ (c.fn = "dispatch_with" /\ ~made.ok) =>
                 /\ c.d.ret = Some(Err("Serialization", made.detail))
                 /\ c.d.slot = c.pre
                 /\ c.d.emits = 0 /\ c.d.notes = <<>>
                 /\ c.m = c.d

\* C29 witness: on a store whose state earlier calls have changed,
\* dispatch_with with a payload that does not serialize returned the
\* Serialization error.
C29_Witness ==
    /\ app.run = "example"
    /\ app.last.fn = "dispatch_with"
    /\ app.last.pre.some
    /\ app.last.pre.val.reducer.state # AppState_default
    /\ app.last.d.ret.some /\ ~app.last.d.ret.val.ok
    /\ app.last.d.ret.val.err = "Serialization"
    /\ app.dnotes # <<>>

\* C30: in the example store a dispatch that returned an error other than
\* an emission's (MissingPayload, InvalidPayload, ActionNotFound; also
\* NotRegistered, LockPoisoned, Serialization) left the store, hence
\* counter, message and todos, as it was; and in every state the i-th todo
\* has id i.
C30_ExampleStore ==
    app.run = "example" =>
        /\ ( /\ app.last.d.ret.some
             /\ ~app.last.d.ret.val.ok
             /\ app.last.d.ret.val.err # "Emit" )
           => app.last.d.slot = app.last.pre
        /\ app.desktop.some =>
              \A i \in DOMAIN app.desktop.val.reducer.state.todos :
                  app.desktop.val.reducer.state.todos[i].id = i

\* C30 witness: after two todos were added, an ADD_TODO without payload
\* returned MissingPayload.
C30_Witness ==
    /\ app.run = "example"
    /\ app.desktop.some
    /\ Len(app.desktop.val.reducer.state.todos) = 2
    /\ app.last.kind = "ADD_TODO"
    /\ app.last.d.ret = Some(Err("MissingPayload", "ADD_TODO"))

====
